---------------------------- MODULE Spec2Model ----------------------------
(***************************************************************************)
(* A model of talkboy, a record-and-replay HTTP proxy.                     *)
(*                                                                         *)
(*   - HarSession (src/archive/store.rs): the single-transaction recorder  *)
(*   - ProxyService::call (src/proxy.rs): the record pipeline              *)
(*   - HarLoader (src/archive/load.rs), ArchivedRequest::matches           *)
(*     (src/archive/mod.rs), PlaybackService::call (src/playback.rs)       *)
(*                                                                         *)
(* Data conventions.  A Rust String or Vec<u8> is the sequence of its      *)
(* bytes (0..255); a String is such a sequence that is valid UTF-8.        *)
(* Option<T> is a sequence of length 0 (None) or 1 (Some).  A SHA-256      *)
(* digest is an opaque value determined by, and determining, its input.    *)
(***************************************************************************)
EXTENDS Integers, Sequences, FiniteSets, TLC

\* ------------------------------------------------------------------ bounds

\* Requests handled concurrently by one record server.
NumRequests == 2
\* Entries one HarSession may hold when driven through its public API.
MaxEntries == 2
\* Length of the transaction list of a playback server.
MaxTransactions == 2
\* Length of a query facts list handed to matches.
MaxFacts == 2
\* Characters an input of normalize_path is padded with, and characters after
\* the padding.
MaxPad == 21
MaxTail == 2
\* Milliseconds of a configured or recorded delay.
MaxMillis == 2
\* Headers of a forwarded request or response.
MaxHeaders == 2
\* Bytes of a header value or a body put through the codec.
MaxBytes == 3
\* Directory entries of a project's recording directory.
MaxFiles == 2
\* Bytes of the query of a request URI.
MaxQuery == 4
\* Projects of a configuration whose ports are settled one after the other,
\* and how many ports below the last one that can be yielded the allocator
\* stands when the first of them is reached.
MaxProjects == 3
NearTop == 2

\* ----------------------------------------------------------------- options

None == <<>>
Some(x) == <<x>>
IsSome(o) == o # <<>>
IsNone(o) == o = <<>>
Unwrap(o) == o[1]

\* --------------------------------------------------------- byte strings

\* "GET", "POST", "get"
GET == <<71, 69, 84>>
POST == <<80, 79, 83, 84>>
get_lower == <<103, 101, 116>>
\* "/a", "/b", "q=1"
PathA == <<47, 97>>
PathB == <<47, 98>>
QueryQ == <<113, 61, 49>>
\* "http", "up.test"
SchemeHttp == <<104, 116, 116, 112>>
AuthorityUp == <<117, 112, 46, 116, 101, 115, 116>>
\* "content-type", "text/plain", "x-bin"
ContentTypeName == <<99, 111, 110, 116, 101, 110, 116, 45, 116, 121, 112, 101>>
TextPlain == <<116, 101, 120, 116, 47, 112, 108, 97, 105, 110>>
XBinName == <<120, 45, 98, 105, 110>>
\* "hi", the bytes FF FE (not UTF-8), "Not Found"
BodyHi == <<104, 105>>
BodyBin == <<255, 254>>
NotFoundBody == <<78, 111, 116, 32, 70, 111, 117, 110, 100>>
\* "base64", "hash:"
Base64Marker == <<98, 97, 115, 101, 54, 52>>
HashPrefix == <<104, 97, 115, 104, 58>>


\* ------------------------------------------------------------ text codec

RECURSIVE Utf8From(_, _)
\* String::from_utf8's validation: TRUE iff b[i..] is well-formed UTF-8.
Utf8From(b, i) ==
    LET n == Len(b)
        Cont(k) == k <= n /\ b[k] >= 128 /\ b[k] <= 191
        In(k, lo, hi) == k <= n /\ b[k] >= lo /\ b[k] <= hi
    IN  IF i > n THEN TRUE
        ELSE IF b[i] < 128 THEN Utf8From(b, i + 1)
        ELSE IF b[i] >= 194 /\ b[i] <= 223
            THEN Cont(i + 1) /\ Utf8From(b, i + 2)
        ELSE IF b[i] = 224
            THEN In(i + 1, 160, 191) /\ Cont(i + 2) /\ Utf8From(b, i + 3)
        ELSE IF b[i] = 237
            THEN In(i + 1, 128, 159) /\ Cont(i + 2) /\ Utf8From(b, i + 3)
        ELSE IF b[i] >= 225 /\ b[i] <= 239
            THEN Cont(i + 1) /\ Cont(i + 2) /\ Utf8From(b, i + 3)
        ELSE IF b[i] = 240
            THEN In(i + 1, 144, 191) /\ Cont(i + 2) /\ Cont(i + 3) /\ Utf8From(b, i + 4)
        ELSE IF b[i] >= 241 /\ b[i] <= 243
            THEN Cont(i + 1) /\ Cont(i + 2) /\ Cont(i + 3) /\ Utf8From(b, i + 4)
        ELSE IF b[i] = 244
            THEN In(i + 1, 128, 143) /\ Cont(i + 2) /\ Cont(i + 3) /\ Utf8From(b, i + 4)
        ELSE FALSE

is_utf8(b) == Utf8From(b, 1)

\* HeaderValue::to_str succeeds only on visible ASCII (and tab).
to_str_ok(v) == \A i \in DOMAIN v : (v[i] >= 32 /\ v[i] < 127) \/ v[i] = 9

\* The base64 alphabet: the character of a 6-bit value.
B64Char(i) ==
    IF i < 26 THEN 65 + i
    ELSE IF i < 52 THEN 71 + i
    ELSE IF i < 62 THEN i - 4
    ELSE IF i = 62 THEN 43 ELSE 47

\* The 6-bit value of a base64 character, -1 when it is none.
B64Val(c) ==
    IF c >= 65 /\ c <= 90 THEN c - 65
    ELSE IF c >= 97 /\ c <= 122 THEN c - 71
    ELSE IF c >= 48 /\ c <= 57 THEN c + 4
    ELSE IF c = 43 THEN 62
    ELSE IF c = 47 THEN 63 ELSE -1

RECURSIVE base64_encode(_)
base64_encode(b) ==
    IF Len(b) = 0 THEN <<>>
    ELSE IF Len(b) = 1
        THEN <<B64Char(b[1] \div 4), B64Char((b[1] % 4) * 16), 61, 61>>
    ELSE IF Len(b) = 2
        THEN <<B64Char(b[1] \div 4), B64Char((b[1] % 4) * 16 + b[2] \div 16),
               B64Char((b[2] % 16) * 4), 61>>
    ELSE <<B64Char(b[1] \div 4), B64Char((b[1] % 4) * 16 + b[2] \div 16),
           B64Char((b[2] % 16) * 4 + b[3] \div 64), B64Char(b[3] % 64)>>
         \o base64_encode(SubSeq(b, 4, Len(b)))

RECURSIVE B64DecodeFrom(_, _)
\* The bytes of the padded quads t[i..]; <<-1>> when a quad is malformed.
B64DecodeFrom(t, i) ==
    IF i > Len(t) THEN <<>>
    ELSE
        LET a == B64Val(t[i])
            b == B64Val(t[i + 1])
            c == B64Val(t[i + 2])
            d == B64Val(t[i + 3])
            last == i + 3 = Len(t)
            rest == B64DecodeFrom(t, i + 4)
            head ==
                IF a < 0 \/ b < 0 THEN <<-1>>
                ELSE IF t[i + 2] = 61 /\ t[i + 3] = 61 /\ last
                    THEN IF b % 16 = 0 THEN <<a * 4 + b \div 16>> ELSE <<-1>>
                ELSE IF c < 0 THEN <<-1>>
                ELSE IF t[i + 3] = 61 /\ last
                    THEN IF c % 4 = 0
                         THEN <<a * 4 + b \div 16, (b % 16) * 16 + c \div 4>>
                         ELSE <<-1>>
                ELSE IF d < 0 THEN <<-1>>
                ELSE <<a * 4 + b \div 16, (b % 16) * 16 + c \div 4, (c % 4) * 64 + d>>
        IN  IF head = <<-1>> \/ rest = <<-1>> THEN <<-1>> ELSE head \o rest

\* base64::decode: the bytes, or a decode error.
base64_decode(t) ==
    IF Len(t) % 4 # 0 THEN [ok |-> FALSE, val |-> <<>>]
    ELSE LET r == B64DecodeFrom(t, 1)
         IN  IF r = <<-1>> THEN [ok |-> FALSE, val |-> <<>>]
             ELSE [ok |-> TRUE, val |-> r]

\* body_text: (text, base64_encoded).
body_text(b) ==
    IF is_utf8(b) THEN [text |-> b, encoded |-> FALSE]
    ELSE [text |-> base64_encode(b), encoded |-> TRUE]

\* str::to_uppercase / to_lowercase on the ASCII letters.
to_uppercase(s) == [i \in DOMAIN s |-> IF s[i] >= 97 /\ s[i] <= 122 THEN s[i] - 32 ELSE s[i]]
to_lowercase(s) == [i \in DOMAIN s |-> IF s[i] >= 65 /\ s[i] <= 90 THEN s[i] + 32 ELSE s[i]]

\* ------------------------------------------------------- HTTP messages

\* hyper::Version and its archive string.
Versions == {"HTTP_09", "HTTP_10", "HTTP_11", "HTTP_2"}

string_for_http_version(v) ==
    CASE v = "HTTP_09" -> <<72, 84, 84, 80, 47, 48, 46, 57>>
      [] v = "HTTP_10" -> <<72, 84, 84, 80, 47, 49, 46, 48>>
      [] v = "HTTP_11" -> <<72, 84, 84, 80, 47, 49, 46, 49>>
      [] v = "HTTP_2" -> <<72, 84, 84, 80, 47, 50>>

\* A Uri is [scheme, authority: Option, path, query: Option].
\* Uri::path_and_query as text: the path, then "?" and the query if any.
path_and_query(u) ==
    u.path \o (IF IsSome(u.query) THEN <<63>> \o Unwrap(u.query) ELSE <<>>)

\* Display for Uri: scheme "://" authority path "?" query.
format_uri(u) ==
    (IF IsSome(u.scheme) THEN Unwrap(u.scheme) \o <<58, 47, 47>> ELSE <<>>)
    \o (IF IsSome(u.authority) THEN Unwrap(u.authority) ELSE <<>>)
    \o path_and_query(u)

\* HeaderMap::get(name): the first value of that name.
header_get(headers, name) ==
    LET idx == {i \in DOMAIN headers : headers[i].name = name}
    IN  IF idx = {} THEN None
        ELSE Some(headers[CHOOSE i \in idx : \A j \in idx : i <= j].value)

\* .get(CONTENT_TYPE).map(|v| v.to_str().unwrap_or("")).unwrap_or("")
mime_type_of(headers) ==
    LET v == header_get(headers, ContentTypeName)
    IN  IF IsSome(v) /\ to_str_ok(Unwrap(v)) THEN Unwrap(v) ELSE <<>>

\* ------------------------------------------------------------ HarSession

\* Sha256 over the four inputs in digest.input order, rendered as hex: an
\* opaque value, equal for equal concatenated input and different otherwise.
sha256_hex(method, url, http_version, body) ==
    [sha256 |-> method \o url \o http_version \o body]

\* headers_to_har: one entry per header; val.to_str().unwrap() panics on a
\* value that is not visible ASCII.
headers_to_har(m) ==
    IF \E i \in DOMAIN m : ~to_str_ok(m[i].value)
    THEN [ok |-> FALSE, val |-> <<>>]
    ELSE [ok |-> TRUE,
          val |-> [i \in DOMAIN m |->
                     [name |-> m[i].name, value |-> m[i].value, comment |-> None]]]

\* request_body_to_har: None for an empty body.
request_body_to_har(b, mime_type) ==
    IF b = <<>> THEN None
    ELSE LET t == body_text(b)
         IN  Some([mime_type |-> mime_type,
                   text |-> t.text,
                   comment |-> IF t.encoded THEN Some(Base64Marker) ELSE None])

\* response_body_to_har.
response_body_to_har(b, mime_type) ==
    LET t == body_text(b)
    IN  [size |-> Len(b),
         mime_type |-> mime_type,
         text |-> IF t.text = <<>> THEN None ELSE Some(t.text),
         encoding |-> IF t.encoded THEN Some(Base64Marker) ELSE None]

\* HarSession::new.
new ==
    [entries |-> <<>>,
     start_date |-> None,
     request |-> None,
     response |-> None,
     request_hash |-> None]

\* start_session that also empties the log.
start_session_Fresh(s, t) == [s EXCEPT !.start_date = Some(t), !.entries = <<>>]

\* HarSession::start_session at wall-clock time t.
start_session(s, t) == [s EXCEPT !.start_date = Some(t)]

\* add_entry that pushes the entry twice.
add_entry_Twice(s, entry) == [s EXCEPT !.entries = Append(Append(@, entry), entry)]

\* HarSession::add_entry.
add_entry(s, entry) == [s EXCEPT !.entries = Append(@, entry)]

\* The position of the first c in s at or after position i, or 0.
RECURSIVE index_of(_, _, _)
index_of(s, c, i) ==
    IF i > Len(s) THEN 0
    ELSE IF s[i] = c THEN i
    ELSE index_of(s, c, i + 1)

\* str::split(c): the pieces between the occurrences of c; one piece, the
\* empty one, for the empty string.
RECURSIVE split(_, _)
split(s, c) ==
    IF index_of(s, c, 1) = 0 THEN <<s>>
    ELSE <<SubSeq(s, 1, index_of(s, c, 1) - 1)>>
         \o split(SubSeq(s, index_of(s, c, 1) + 1, Len(s)), c)

\* pair.splitn(2, "="): the piece cut at its first "=", if it has one.
splitn2(pair) ==
    IF index_of(pair, 61, 1) = 0 THEN <<pair>>
    ELSE <<SubSeq(pair, 1, index_of(pair, 61, 1) - 1),
           SubSeq(pair, index_of(pair, 61, 1) + 1, Len(pair))>>

\* query_string_to_har (store.rs) and Query::har (convert.rs), which are the
\* same code: one entry for every "&"-separated piece of a present query.
query_string_to_har(p) ==
    IF IsNone(p) THEN <<>>
    ELSE [i \in DOMAIN split(Unwrap(p), 38) |->
            [name |-> splitn2(split(Unwrap(p), 38)[i])[1],
             value |-> IF Len(splitn2(split(Unwrap(p), 38)[i])) = 2
                       THEN splitn2(split(Unwrap(p), 38)[i])[2] ELSE <<>>,
             comment |-> None]]

\* Whether record_request / record_response panics on these headers.
record_panics(head) == ~headers_to_har(head.headers).ok

\* record_request that keeps a fingerprint the session already holds.
record_request_FirstHash(s, head, body) ==
    LET mime_type == mime_type_of(head.headers)
        method == head.method
        url == format_uri(head.uri)
        http_version == string_for_http_version(head.version)
        request_hash == sha256_hex(method, url, http_version, body)
        r == [method |-> method,
              url |-> url,
              http_version |-> http_version,
              headers |-> headers_to_har(head.headers).val,
              query_string |-> query_string_to_har(head.uri.query),
              post_data |-> request_body_to_har(body, mime_type),
              comment |-> Some([prefix |-> HashPrefix, hex |-> request_hash])]
    IN  [s EXCEPT !.request_hash = IF IsSome(s.request_hash) THEN s.request_hash
                                    ELSE Some(request_hash), !.request = Some(r)]

\* HarSession::record_request (on a head it does not panic on).
record_request(s, head, body) ==
    LET mime_type == mime_type_of(head.headers)
        method == head.method
        url == format_uri(head.uri)
        http_version == string_for_http_version(head.version)
        request_hash == sha256_hex(method, url, http_version, body)
        r == [method |-> method,
              url |-> url,
              http_version |-> http_version,
              headers |-> headers_to_har(head.headers).val,
              query_string |-> query_string_to_har(head.uri.query),
              post_data |-> request_body_to_har(body, mime_type),
              comment |-> Some([prefix |-> HashPrefix, hex |-> request_hash])]
    IN  [s EXCEPT !.request_hash = Some(request_hash), !.request = Some(r)]

\* record_response that does not keep the response.
record_response_Unkept(s, head, body) == s

\* HarSession::record_response (on a head it does not panic on).
record_response(s, head, body) ==
    LET mime_type == mime_type_of(head.headers)
        r == [status |-> head.status,
              http_version |-> string_for_http_version(head.version),
              headers |-> headers_to_har(head.headers).val,
              content |-> response_body_to_har(body, mime_type)]
    IN  [s EXCEPT !.response = Some(r)]

\* build with the start timestamp examined before the request and response.
build_StartFirst(s, t) ==
    IF IsNone(s.start_date)
        THEN [ok |-> FALSE, err |-> "MissingStart", entry |-> None, s |-> s]
    ELSE IF IsNone(s.request) /\ IsNone(s.response)
        THEN [ok |-> FALSE, err |-> "MissingBoth", entry |-> None, s |-> s]
    ELSE IF IsNone(s.request)
        THEN [ok |-> FALSE, err |-> "MissingRequest", entry |-> None, s |-> s]
    ELSE IF IsNone(s.response)
        THEN [ok |-> FALSE, err |-> "MissingResponse", entry |-> None, s |-> s]
    ELSE [ok |-> TRUE,
          err |-> "",
          entry |-> Some([started_date_time |-> Unwrap(s.start_date),
                          time |-> t - Unwrap(s.start_date),
                          request |-> Unwrap(s.request),
                          response |-> Unwrap(s.response)]),
          s |-> [s EXCEPT !.request = None, !.response = None]]

\* build that takes the request and the response before it looks at the
\* start timestamp.
build_TakeFirst(s, t) ==
    IF IsNone(s.request) /\ IsNone(s.response)
        THEN [ok |-> FALSE, err |-> "MissingBoth", entry |-> None, s |-> s]
    ELSE IF IsNone(s.request)
        THEN [ok |-> FALSE, err |-> "MissingRequest", entry |-> None, s |-> s]
    ELSE IF IsNone(s.response)
        THEN [ok |-> FALSE, err |-> "MissingResponse", entry |-> None, s |-> s]
    ELSE IF IsNone(s.start_date)
        THEN [ok |-> FALSE, err |-> "MissingStart", entry |-> None,
              s |-> [s EXCEPT !.request = None, !.response = None]]
    ELSE [ok |-> TRUE,
          err |-> "",
          entry |-> Some([started_date_time |-> Unwrap(s.start_date),
                          time |-> t - Unwrap(s.start_date),
                          request |-> Unwrap(s.request),
                          response |-> Unwrap(s.response)]),
          s |-> [s EXCEPT !.request = None, !.response = None]]

\* HarSession::build at wall-clock time t: the entry and the session with
\* request and response taken, or the IncompleteEntryError.
build(s, t) ==
    IF IsNone(s.request) /\ IsNone(s.response)
        THEN [ok |-> FALSE, err |-> "MissingBoth", entry |-> None, s |-> s]
    ELSE IF IsNone(s.request)
        THEN [ok |-> FALSE, err |-> "MissingRequest", entry |-> None, s |-> s]
    ELSE IF IsNone(s.response)
        THEN [ok |-> FALSE, err |-> "MissingResponse", entry |-> None, s |-> s]
    ELSE IF IsNone(s.start_date)
        THEN [ok |-> FALSE, err |-> "MissingStart", entry |-> None, s |-> s]
    ELSE [ok |-> TRUE,
          err |-> "",
          entry |-> Some([started_date_time |-> Unwrap(s.start_date),
                          time |-> t - Unwrap(s.start_date),
                          request |-> Unwrap(s.request),
                          response |-> Unwrap(s.response)]),
          s |-> [s EXCEPT !.request = None, !.response = None]]

\* commit that leaves the start timestamp in place.
commit_KeepStart(s, t) ==
    LET b == build(s, t)
    IN  IF ~b.ok THEN [ok |-> FALSE, err |-> b.err, ret |-> None, s |-> s]
        ELSE [ok |-> TRUE,
              err |-> "",
              ret |-> b.s.request_hash,
              s |-> [add_entry(b.s, Unwrap(b.entry)) EXCEPT
                        !.request = None,
                        !.response = None,
                        !.request_hash = None]]

\* HarSession::commit at wall-clock time t: [ok, err, ret, s]; ret is the
\* returned fingerprint.  request_hash.take().unwrap() panics on None.
commit(s, t) ==
    LET b == build(s, t)
    IN  IF ~b.ok THEN [ok |-> FALSE, err |-> b.err, ret |-> None, s |-> b.s]
        ELSE IF IsNone(b.s.request_hash)
            THEN [ok |-> FALSE, err |-> "panic", ret |-> None, s |-> s]
        ELSE [ok |-> TRUE,
              err |-> "",
              ret |-> b.s.request_hash,
              s |-> [add_entry(b.s, Unwrap(b.entry)) EXCEPT
                        !.start_date = None,
                        !.request = None,
                        !.response = None,
                        !.request_hash = None]]

\* file_hash taken from the latest entry of the log.
file_hash_Latest(s) ==
    IF s.entries = <<>> THEN None
    ELSE LET c == s.entries[Len(s.entries)].request.comment
         IN  IF IsNone(c) THEN Some([fp8_of |-> None])
             ELSE Some([fp8_of |-> Some(Unwrap(c).hex)])

\* file_hash that falls back to the pending fingerprint on an empty log.
file_hash_Pending(s) ==
    IF s.entries = <<>>
        THEN IF IsNone(s.request_hash) THEN None ELSE Some([fp8_of |-> s.request_hash])
    ELSE Some([fp8_of |-> Some(Unwrap(s.entries[1].request.comment).hex)])

\* HarSession::file_hash: the first 8 hex characters of the first entry's
\* fingerprint comment ("" when it has no comment), None on an empty log.
file_hash(s) ==
    IF s.entries = <<>> THEN None
    ELSE LET c == s.entries[1].request.comment
         IN  IF IsNone(c) THEN Some([fp8_of |-> None])
             ELSE Some([fp8_of |-> Some(Unwrap(c).hex)])

\* normalize_path replacing byte by byte.
normalize_path_PerByte(str) ==
    LET IsWord(c) == (c >= 48 /\ c <= 57) \/ (c >= 65 /\ c <= 90)
                     \/ (c >= 97 /\ c <= 122) \/ c = 95
        normalized == [i \in DOMAIN str |->
                         IF IsWord(str[i]) \/ str[i] = 46 THEN str[i] ELSE 45]
    IN  IF Len(normalized) > 20 THEN SubSeq(normalized, 1, 20) ELSE normalized

\* normalize_path: every character that is not [0-9A-Za-z_.] becomes "-"
\* (a multi-byte character is one character), cut to 20 characters.
normalize_path(str) ==
    LET IsWord(c) == (c >= 48 /\ c <= 57) \/ (c >= 65 /\ c <= 90)
                     \/ (c >= 97 /\ c <= 122) \/ c = 95
        chars == SelectSeq(str, LAMBDA c : c < 128 \/ c >= 192)
        normalized == [i \in DOMAIN chars |->
                         IF IsWord(chars[i]) \/ chars[i] = 46 THEN chars[i] ELSE 45]
    IN  IF Len(normalized) > 20 THEN SubSeq(normalized, 1, 20) ELSE normalized

\* write_to_dir with the base name used as it is.
write_to_dir_RawBase(s, base_name) ==
    LET hash == file_hash(s)
    IN  IF IsNone(hash) THEN [ok |-> FALSE, err |-> "EmptySession", file_name |-> None]
        ELSE [ok |-> TRUE,
              err |-> "",
              file_name |-> Some([base |-> base_name, fp8 |-> Unwrap(hash)])]

\* HarSession::write_to_dir, up to File::create: the file name, or
\* EmptySession.
write_to_dir(s, base_name) ==
    LET hash == file_hash(s)
    IN  IF IsNone(hash) THEN [ok |-> FALSE, err |-> "EmptySession", file_name |-> None]
        ELSE [ok |-> TRUE,
              err |-> "",
              file_name |-> Some([base |-> normalize_path(base_name),
                                  fp8 |-> Unwrap(hash)])]

\* serde_json::to_writer_pretty(file, &self.har): the document written.
har_document(s) == [version |-> <<49, 46, 50>>, entries |-> s.entries]

\* ------------------------------------------- the record proxy: messages

HostName == <<104, 111, 115, 116>>
ConnectionName == <<99, 111, 110, 110, 101, 99, 116, 105, 111, 110>>
CloseValue == <<99, 108, 111, 115, 101>>

\* HOP_HEADERS.
HOP_HEADERS ==
    << ConnectionName,
       <<107, 101, 101, 112, 45, 97, 108, 105, 118, 101>>,
       <<112, 114, 111, 120, 121, 45, 97, 117, 116, 104, 101, 110, 116, 105, 99, 97, 116, 101>>,
       <<112, 114, 111, 120, 121, 45, 97, 117, 116, 104, 111, 114, 105, 122, 97, 116, 105, 111, 110>>,
       <<116, 101>>,
       <<116, 114, 97, 105, 108, 101, 114, 115>>,
       <<116, 114, 97, 110, 115, 102, 101, 114, 45, 101, 110, 99, 111, 100, 105, 110, 103>>,
       <<117, 112, 103, 114, 97, 100, 101>> >>

\* remove_hop_headers that removes the connection header alone.
remove_hop_headers_Connection(headers) ==
    SelectSeq(headers, LAMBDA h : h.name # HOP_HEADERS[1])

\* remove_hop_headers: every header named in HOP_HEADERS is removed.
remove_hop_headers(headers) ==
    SelectSeq(headers, LAMBDA h : \A i \in DOMAIN HOP_HEADERS : h.name # HOP_HEADERS[i])

\* HeaderMap::insert(name, value): the one value of that name.
header_insert(headers, name, value) ==
    SelectSeq(headers, LAMBDA h : h.name # name) \o <<[name |-> name, value |-> value]>>

\* extract_authority: the authority, or AuthorityError.
extract_authority(uri) ==
    IF IsSome(uri.authority) THEN [ok |-> TRUE, val |-> Unwrap(uri.authority)]
    ELSE [ok |-> FALSE, val |-> <<>>]

\* Uri::path_and_query() is Some when the Uri has a scheme or no authority.
has_path_and_query(u) == IsSome(u.scheme) \/ IsNone(u.authority)

\* calculate_target_uri that keeps the request's own target.
calculate_target_uri_Requested(requested, proxied) ==
    [ok |-> extract_authority(proxied).ok,
     err |-> IF extract_authority(proxied).ok THEN "" ELSE "AuthorityError",
     val |-> requested]

\* calculate_target_uri: scheme and authority of the upstream, path and
\* query of the request; a request target without path (the authority form)
\* leaves the builder without one, and build() fails.
calculate_target_uri(requested, proxied) ==
    LET authority == extract_authority(proxied)
    IN  IF ~authority.ok THEN [ok |-> FALSE, err |-> "AuthorityError", val |-> requested]
        ELSE IF ~has_path_and_query(requested)
        THEN [ok |-> FALSE, err |-> "InvalidUriParts", val |-> requested]
        ELSE [ok |-> TRUE,
              err |-> "",
              val |-> [scheme |-> IF IsSome(proxied.scheme) THEN proxied.scheme
                                  ELSE Some(SchemeHttp),
                       authority |-> Some(authority.val),
                       path |-> requested.path,
                       query |-> requested.query]]

\* ProxyService::create_proxied_request on the request head.
create_proxied_request(head, target, host_header) ==
    [head EXCEPT
        !.headers = header_insert(remove_hop_headers(head.headers), HostName, host_header),
        !.uri = target]

\* create_proxied_response on the response head.
create_proxied_response(head) ==
    [head EXCEPT !.headers = remove_hop_headers(head.headers)]

\* The configured upstream (proxy_for) and ignored_status_codes.
ProxyFor ==
    [scheme |-> Some(SchemeHttp), authority |-> Some(AuthorityUp),
     path |-> <<47>>, query |-> None]

ignored_status_codes == {429}

\* ------------------------------------------------------------ the state

VARIABLES
    fs,         \* the archive directory: file name -> document written
    hs,         \* a HarSession driven through its public API
    last,       \* the last HarSession call and its result
    dir_exists, \* whether the archive directory exists
    tx,         \* the record server: each request's future, where it stands
    hars,       \* the record server: the HarSessions of the requests' futures
    fslog,      \* every File::create so far: who made it, on which name
    transactions, \* the playback server: the loaded transaction list
    px,         \* the playback server: each request's future, where it stands
    query,      \* a facts list handed to matches
    verdict,    \* what matches answered for each loaded transaction
    input,      \* the arguments a function is applied to
    output      \* what the function returned, once it was applied

vars == <<fs, hs, last, dir_exists, tx, hars, fslog, transactions, px, query, verdict,
          input, output>>

Requests == 1 .. NumRequests

\* A request that has not arrived.
IdleTx ==
    [pc |-> "idle", head |-> None, body |-> <<>>, method |-> <<>>,
     path_without_query |-> <<>>, slot |-> 0, upstream |-> None, resp |-> None,
     hash |-> None,
     file |-> None, reply |-> None]

sessionVars == <<hs, last>>
recordVars == <<dir_exists, tx, hars, fslog>>
playVars == <<transactions, px, query, verdict>>
applyVars == <<input, output>>

\* No HarSession is driven through its API.
SessionUnused == hs = new /\ last = [op |-> "new", ok |-> TRUE, err |-> "", ret |-> None]

\* No record server runs.
RecordUnused ==
    /\ dir_exists = FALSE
    /\ tx = [r \in Requests |-> IdleTx]
    /\ hars = [r \in Requests |-> None]
    /\ fslog = {}

\* A playback request that has not arrived.
IdlePx ==
    [pc |-> "idle", parts |-> None, body |-> <<>>, from |-> None, response |-> None,
     reply |-> None]

\* No playback server runs and matches is not called.
PlayUnused ==
    /\ transactions = <<>>
    /\ px = [r \in Requests |-> IdlePx]
    /\ query = <<>>
    /\ verdict = None

\* No function is applied on its own.
ApplyUnused == input = <<>> /\ output = None

\* A file that File::create has truncated and that holds no document yet.
Truncated == [version |-> <<>>, entries |-> <<>>]

\* The bytes the names and values of a header list take in a document.
RECURSIVE headers_size(_)
headers_size(m) ==
    IF m = <<>> THEN 0
    ELSE Len(Head(m).name) + Len(Head(m).value) + headers_size(Tail(m))

\* The bytes the strings of one entry take in a document.
entry_size(e) ==
    Len(e.request.method) + Len(e.request.url) + Len(e.request.http_version)
    + headers_size(e.request.headers)
    + (IF IsSome(e.request.post_data) THEN Len(Unwrap(e.request.post_data).text) ELSE 0)
    + Len(e.response.http_version)
    + headers_size(e.response.headers)
    + Len(e.response.content.mime_type)
    + (IF IsSome(e.response.content.text) THEN Len(Unwrap(e.response.content.text))
       ELSE 0)

RECURSIVE entries_size(_)
entries_size(es) ==
    IF es = <<>> THEN 0 ELSE entry_size(Head(es)) + entries_size(Tail(es))

\* The length of a file: to_writer_pretty writes every string of the
\* document, so the length grows with the length of each of them; a file
\* written over a longer one keeps the longer one's length.
RECURSIVE file_size(_)
file_size(f) ==
    IF "rest_of" \in DOMAIN f THEN file_size(f.rest_of)
    ELSE Len(f.version) + entries_size(f.entries)

\* to_writer_pretty(file, doc) on a handle File::create returned: the bytes
\* are written from offset 0 of what the file holds by then.  Bytes another
\* handle has put beyond the end of doc since the file was created stay in
\* the file.
write_from_start(old, doc) ==
    IF file_size(old) > file_size(doc) THEN [written |-> doc, rest_of |-> old]
    ELSE doc

\* File::create(name) followed by to_writer_pretty(doc); either may fail.
fs_write(files, name, doc, io) ==
    IF io = "create_failed" THEN files
    ELSE IF io = "write_failed" THEN (name :> Truncated) @@ files
    ELSE (name :> doc) @@ files

IoOutcomes == {"ok", "create_failed", "write_failed"}

\* --------------------------------------------- HarSession through its API

UriUpA == [scheme |-> Some(SchemeHttp), authority |-> Some(AuthorityUp),
           path |-> PathA, query |-> None]
UriUpB == [scheme |-> Some(SchemeHttp), authority |-> Some(AuthorityUp),
           path |-> PathB, query |-> Some(QueryQ)]

\* (head, body) pairs handed to record_request.
SessionRequests ==
    { <<[method |-> GET, uri |-> UriUpA, version |-> "HTTP_11", headers |-> <<>>],
        <<>>>>,
      <<[method |-> POST, uri |-> UriUpB, version |-> "HTTP_11",
         headers |-> <<[name |-> ContentTypeName, value |-> TextPlain]>>],
        BodyBin>> }

\* (head, body) pairs handed to record_response.
SessionResponses ==
    { <<[status |-> 200, version |-> "HTTP_11",
         headers |-> <<[name |-> ContentTypeName, value |-> TextPlain]>>],
        BodyHi>>,
      <<[status |-> 404, version |-> "HTTP_11", headers |-> <<>>], <<>>>> }

\* base_name arguments of write_to_dir: "GET./a".
SessionBaseNames == { GET \o <<46>> \o PathA }

Called(op, ok, err, ret) == [op |-> op, ok |-> ok, err |-> err, ret |-> ret]

\* What Utc::now() returns while the HarSession is driven through its API.
SessionClock == {0}

StartSession ==
    \E t \in SessionClock :
        /\ hs' = start_session(hs, t)
        /\ last' = Called("start_session", TRUE, "", None)
        /\ UNCHANGED <<fs, recordVars, playVars, applyVars>>

RecordRequest ==
    \E rq \in SessionRequests :
        /\ ~record_panics(rq[1])
        /\ hs' = record_request(hs, rq[1], rq[2])
        /\ last' = Called("record_request", TRUE, "", None)
        /\ UNCHANGED <<fs, recordVars, playVars, applyVars>>

RecordResponse ==
    \E rs \in SessionResponses :
        /\ ~record_panics(rs[1])
        /\ hs' = record_response(hs, rs[1], rs[2])
        /\ last' = Called("record_response", TRUE, "", None)
        /\ UNCHANGED <<fs, recordVars, playVars, applyVars>>

Commit ==
    \E t \in SessionClock :
        LET c == commit(hs, t)
        IN  /\ c.ok => Len(hs.entries) < MaxEntries
            /\ hs' = c.s
            /\ last' = Called("commit", c.ok, c.err, c.ret)
            /\ UNCHANGED <<fs, recordVars, playVars, applyVars>>

WriteToDir ==
    \E base_name \in SessionBaseNames, io \in IoOutcomes :
        LET w == write_to_dir(hs, base_name)
        IN  /\ ~w.ok => io = "ok"
            /\ fs' = IF w.ok THEN fs_write(fs, Unwrap(w.file_name), har_document(hs), io)
                     ELSE fs
            /\ last' = Called("write_to_dir",
                              w.ok /\ io = "ok",
                              IF w.ok /\ io # "ok" THEN "io" ELSE w.err,
                              IF w.ok /\ io = "ok" THEN w.file_name ELSE None)
            /\ UNCHANGED <<hs, recordVars, playVars, applyVars>>

InitSession ==
    /\ fs = <<>>
    /\ SessionUnused
    /\ RecordUnused
    /\ PlayUnused
    /\ ApplyUnused

NextSession ==
    \/ StartSession
    \/ RecordRequest
    \/ RecordResponse
    \/ Commit
    \/ WriteToDir

SpecSession == InitSession /\ [][NextSession]_vars

\* ------------------------------------------------- the record pipeline

\* Inbound (head, body) pairs: GET /a with "connection: close", and
\* POST /b?q=1 with a binary body.
RecordInbound ==
    { <<[method |-> GET,
         uri |-> [scheme |-> None, authority |-> None, path |-> PathA, query |-> None],
         version |-> "HTTP_11",
         headers |-> <<[name |-> ConnectionName, value |-> CloseValue]>>],
        <<>>>>,
      <<[method |-> POST,
         uri |-> [scheme |-> None, authority |-> None, path |-> PathB,
                  query |-> Some(QueryQ)],
         version |-> "HTTP_11",
         headers |-> <<[name |-> ContentTypeName, value |-> TextPlain]>>],
        BodyBin>> }

\* Upstream (head, body) answers: 200 with a body that is not UTF-8, 429
\* without a body, and 200 with a header value that is not visible ASCII.
UpstreamResponses ==
    { <<[status |-> 200, version |-> "HTTP_11",
         headers |-> <<[name |-> ContentTypeName, value |-> TextPlain]>>],
        BodyBin>>,
      <<[status |-> 429, version |-> "HTTP_11",
         headers |-> <<[name |-> ConnectionName, value |-> CloseValue]>>],
        <<>>>>,
      <<[status |-> 200, version |-> "HTTP_11",
         headers |-> <<[name |-> XBinName, value |-> BodyBin]>>],
        <<>>>> }

\* What Utc::now() may return in the record server: the wall clock is not
\* monotonic.
RecordClock == {0, 1}

\* What a session looked like when an operation found it.
Lifecycle(s) ==
    [started |-> IsSome(s.start_date),
     request |-> IsSome(s.request),
     response |-> IsSome(s.response),
     entries |-> Len(s.entries)]

\* The HarSession of a future with the calls made on it so far; `to` is the
\* session the call leaves.
Applied(h, op, by, to) ==
    [s |-> to,
     ops |-> Append(h.ops, [op |-> op, by |-> by, pre |-> Lifecycle(h.s)])]

\* One HarSession kept by the service and handed to every request.
session_for_Shared(sessions, r) ==
    [slot |-> 1,
     har |-> IF IsSome(sessions[1]) THEN Unwrap(sessions[1])
             ELSE [s |-> new, ops |-> <<>>]]

\* `let mut har = HarSession::new()`: the session a request's future owns.
session_for(sessions, r) == [slot |-> r, har |-> [s |-> new, ops |-> <<>>]]

\* The first two closures with start_session left out.
on_request_body_Unstarted(h, head, body, t, r) ==
    Applied(h, "record_request", r, record_request(h.s, head, body))

\* The first two closures of the future, up to client.request:
\* record_request, then start_session.
on_request_body(h, head, body, t, r) ==
    LET h1 == Applied(h, "record_request", r, record_request(h.s, head, body))
    IN  Applied(h1, "start_session", r, start_session(h1.s, t))

\* The sessions left when the future of request r ends: its HarSession, if
\* it has one, is dropped with it.
Dropped(r) == IF tx[r].slot = 0 THEN hars ELSE [hars EXCEPT ![tx[r].slot] = None]

\* The future of request r ends in state pc.
Ends(r, pc) ==
    /\ tx' = [tx EXCEPT ![r].pc = pc]
    /\ hars' = Dropped(r)

\* ProxyService::call up to the returned future: target URI, proxied request,
\* archive directory.
Arrive(r) ==
    /\ tx[r].pc = "idle"
    /\ \A q \in Requests : q < r => tx[q].pc # "idle"
    /\ \E rq \in RecordInbound, mkdir \in {"ok", "failed"} :
        LET target == calculate_target_uri(rq[1].uri, ProxyFor)
            proxied == create_proxied_request(rq[1], target.val, AuthorityUp)
        IN  /\ (dir_exists \/ ~target.ok) => mkdir = "ok"
            /\ IF ~target.ok \/ mkdir = "failed"
               THEN Ends(r, "failed") /\ UNCHANGED dir_exists
               ELSE /\ dir_exists' = TRUE
                    /\ tx' = [tx EXCEPT ![r] =
                                [IdleTx EXCEPT
                                    !.pc = "req_body",
                                    !.head = Some(proxied),
                                    !.body = rq[2],
                                    !.method = proxied.method,
                                    !.path_without_query = proxied.uri.path]]
                    /\ UNCHANGED hars
    /\ UNCHANGED <<fs, sessionVars, playVars, applyVars, fslog>>

\* body.concat2() fails.
ReqBodyFail(r) ==
    /\ tx[r].pc = "req_body"
    /\ Ends(r, "failed")
    /\ UNCHANGED <<fs, sessionVars, playVars, applyVars, dir_exists, fslog>>

\* body.concat2() resolves: new session, record_request, start_session, and
\* the request is sent upstream.
ReqBodyDone(r) ==
    /\ tx[r].pc = "req_body"
    /\ LET head == Unwrap(tx[r].head)
           a == session_for(hars, r)
       IN  IF record_panics(head)
           THEN Ends(r, "panicked")
           ELSE \E t \in RecordClock :
                /\ hars' = [hars EXCEPT ![a.slot] =
                              Some(on_request_body(a.har, head, tx[r].body, t, r))]
                /\ tx' = [tx EXCEPT ![r].pc = "upstream", ![r].slot = a.slot]
    /\ UNCHANGED <<fs, sessionVars, playVars, applyVars, dir_exists, fslog>>

\* On an upstream error the future creates the archive file of the pending
\* request before it fails.
UpstreamFail_Flush(r) ==
    /\ tx[r].pc = "upstream"
    /\ Ends(r, "failed")
    /\ LET name == [base |-> normalize_path(tx[r].method \o <<46>> \o tx[r].path_without_query),
                    fp8 |-> [fp8_of |-> Unwrap(hars[tx[r].slot]).s.request_hash]]
       IN  /\ fs' = (name :> Truncated) @@ fs
           /\ fslog' = fslog \cup {[by |-> r, name |-> name, committed |-> FALSE]}
    /\ UNCHANGED <<sessionVars, playVars, applyVars, dir_exists>>

\* client.request(req) fails.
UpstreamFail(r) ==
    /\ tx[r].pc = "upstream"
    /\ Ends(r, "failed")
    /\ UNCHANGED <<fs, sessionVars, playVars, applyVars, dir_exists, fslog>>

\* client.request(req) resolves: hop-by-hop headers are stripped.
UpstreamRespond(r) ==
    /\ tx[r].pc = "upstream"
    /\ \E rs \in UpstreamResponses :
        tx' = [tx EXCEPT ![r].pc = "resp_body",
                         ![r].upstream = Some(rs),
                         ![r].resp = Some([head |-> create_proxied_response(rs[1]),
                                           body |-> rs[2]])]
    /\ UNCHANGED <<fs, sessionVars, playVars, applyVars, dir_exists, hars, fslog>>

\* The response body's concat2() fails.
RespBodyFail(r) ==
    /\ tx[r].pc = "resp_body"
    /\ Ends(r, "failed")
    /\ UNCHANGED <<fs, sessionVars, playVars, applyVars, dir_exists, fslog>>

\* The response rebuilt from the text the archive keeps of the body.
Reply_AsArchived(r) ==
    Some([status |-> Unwrap(tx[r].resp).head.status,
          headers |-> Unwrap(tx[r].resp).head.headers,
          body |-> body_text(Unwrap(tx[r].resp).body).text])

\* The proxied response handed back to the client.
Reply(r) == Some([status |-> Unwrap(tx[r].resp).head.status,
                  headers |-> Unwrap(tx[r].resp).head.headers,
                  body |-> Unwrap(tx[r].resp).body])

\* The future of request r resolves with the proxied response.
Responds(r) ==
    /\ tx' = [tx EXCEPT ![r].pc = "responded", ![r].reply = Reply(r)]
    /\ hars' = Dropped(r)

\* Whether the calls made on a session include a commit that added an entry.
HasCommitted(h) ==
    /\ \E i \in DOMAIN h.ops : h.ops[i].op = "commit"
    /\ Len(h.s.entries) > 0

\* The body closure without the check of the status.
RespBodyDone_ArchiveAll(r) ==
    /\ tx[r].pc = "resp_body"
    /\ \E t \in RecordClock :
       LET slot == tx[r].slot
           h == Unwrap(hars[slot])
           head == Unwrap(tx[r].resp).head
           body == Unwrap(tx[r].resp).body
           h1 == Applied(h, "record_response", r, record_response(h.s, head, body))
           c == commit(h1.s, t)
           h2 == Applied(h1, "commit", r, c.s)
           w == write_to_dir(c.s, tx[r].method \o <<46>> \o tx[r].path_without_query)
           h3 == Applied(h2, "write_to_dir", r, c.s)
       IN  IF record_panics(head)
           THEN Ends(r, "panicked") /\ UNCHANGED <<fs, fslog>>
           ELSE IF ~c.ok \/ ~w.ok
           THEN Ends(r, "failed") /\ UNCHANGED <<fs, fslog>>
           ELSE \E io \in {"ok", "create_failed"} :
                IF io = "create_failed"
                THEN Ends(r, "failed") /\ UNCHANGED <<fs, fslog>>
                ELSE /\ hars' = [hars EXCEPT ![slot] = Some(h3)]
                     /\ fs' = (Unwrap(w.file_name) :> Truncated) @@ fs
                     /\ fslog' = fslog \cup {[by |-> r,
                                              name |-> Unwrap(w.file_name),
                                              committed |-> HasCommitted(h3)]}
                     /\ tx' = [tx EXCEPT ![r].pc = "writing", ![r].hash = c.ret,
                                      ![r].file = w.file_name]
    /\ UNCHANGED <<sessionVars, playVars, applyVars, dir_exists>>

\* The response body's concat2() resolves: record_response, then either the
\* status is ignored, or commit and write_to_dir up to File::create.
RespBodyDone(r) ==
    /\ tx[r].pc = "resp_body"
    /\ \E t \in RecordClock :
       LET slot == tx[r].slot
           h == Unwrap(hars[slot])
           head == Unwrap(tx[r].resp).head
           body == Unwrap(tx[r].resp).body
           h1 == Applied(h, "record_response", r, record_response(h.s, head, body))
           c == commit(h1.s, t)
           h2 == Applied(h1, "commit", r, c.s)
           w == write_to_dir(c.s, tx[r].method \o <<46>> \o tx[r].path_without_query)
           h3 == Applied(h2, "write_to_dir", r, c.s)
       IN  IF record_panics(head)
           THEN Ends(r, "panicked") /\ UNCHANGED <<fs, fslog>>
           ELSE IF head.status \in ignored_status_codes
           THEN Responds(r) /\ UNCHANGED <<fs, fslog>>
           ELSE IF ~c.ok \/ ~w.ok
           THEN Ends(r, "failed") /\ UNCHANGED <<fs, fslog>>
           ELSE \E io \in {"ok", "create_failed"} :
                IF io = "create_failed"
                THEN Ends(r, "failed") /\ UNCHANGED <<fs, fslog>>
                ELSE /\ hars' = [hars EXCEPT ![slot] = Some(h3)]
                     /\ fs' = (Unwrap(w.file_name) :> Truncated) @@ fs
                     /\ fslog' = fslog \cup {[by |-> r,
                                              name |-> Unwrap(w.file_name),
                                              committed |-> HasCommitted(h3)]}
                     /\ tx' = [tx EXCEPT ![r].pc = "writing", ![r].hash = c.ret,
                                      ![r].file = w.file_name]
    /\ UNCHANGED <<sessionVars, playVars, applyVars, dir_exists>>

\* WriteDone that hands the response back with the document still unwritten.
WriteDone_Unwritten(r) ==
    /\ tx[r].pc = "writing"
    /\ \E io \in {"ok", "write_failed"} :
        IF io = "write_failed"
        THEN Ends(r, "failed") /\ UNCHANGED fs
        ELSE Responds(r) /\ UNCHANGED fs
    /\ UNCHANGED <<sessionVars, playVars, applyVars, dir_exists, fslog>>

\* serde_json::to_writer_pretty into the created file, then the response.
WriteDone(r) ==
    /\ tx[r].pc = "writing"
    /\ \E io \in {"ok", "write_failed"} :
        IF io = "write_failed"
        THEN Ends(r, "failed") /\ UNCHANGED fs
        ELSE /\ fs' = (Unwrap(tx[r].file)
                          :> write_from_start(fs[Unwrap(tx[r].file)],
                                              har_document(Unwrap(hars[tx[r].slot]).s)))
                       @@ fs
             /\ Responds(r)
    /\ UNCHANGED <<sessionVars, playVars, applyVars, dir_exists, fslog>>

\* The client disconnects while the future is suspended: it is dropped.
DropRequest(r) ==
    /\ tx[r].pc \in {"req_body", "upstream", "resp_body"}
    /\ Ends(r, "dropped")
    /\ UNCHANGED <<fs, sessionVars, playVars, applyVars, dir_exists, fslog>>

InitRecord ==
    /\ fs = <<>>
    /\ SessionUnused
    /\ RecordUnused
    /\ PlayUnused
    /\ ApplyUnused

NextRecord ==
    \/ \E r \in Requests : Arrive(r)
    \/ \E r \in Requests : ReqBodyFail(r)
    \/ \E r \in Requests : ReqBodyDone(r)
    \/ \E r \in Requests : UpstreamFail(r)
    \/ \E r \in Requests : UpstreamRespond(r)
    \/ \E r \in Requests : RespBodyFail(r)
    \/ \E r \in Requests : RespBodyDone(r)
    \/ \E r \in Requests : WriteDone(r)
    \/ \E r \in Requests : DropRequest(r)

SpecRecord == InitRecord /\ [][NextRecord]_vars

\* ------------------------------------------------- loading and matching

\* The position of the first "://" in s at or after position i, or 0.
RECURSIVE scheme_end(_, _)
scheme_end(s, i) ==
    IF i + 2 > Len(s) THEN 0
    ELSE IF s[i] = 58 /\ s[i + 1] = 47 /\ s[i + 2] = 47 THEN i
    ELSE scheme_end(s, i + 1)

\* Path and query of the text after the authority: split at the first "?".
split_path(s) ==
    LET q == index_of(s, 63, 1)
    IN  IF q = 0 THEN [path |-> s, query |-> None]
        ELSE [path |-> SubSeq(s, 1, q - 1), query |-> Some(SubSeq(s, q + 1, Len(s)))]

\* Uri::from_str: origin form ("/path?query"), absolute form
\* ("scheme://authority/path?query") or authority form; the empty string and
\* an absolute form without authority are errors.
uri_from_str(s) ==
    LET p == scheme_end(s, 1)
        NoUri == [scheme |-> None, authority |-> None, path |-> <<>>, query |-> None]
    IN  IF s = <<>> THEN [ok |-> FALSE, val |-> NoUri]
        ELSE IF s[1] = 47 \/ s = <<42>>
            THEN [ok |-> TRUE,
                  val |-> [scheme |-> None, authority |-> None,
                           path |-> split_path(s).path, query |-> split_path(s).query]]
        ELSE IF p > 1
            THEN LET rest == SubSeq(s, p + 3, Len(s))
                     slash == index_of(rest, 47, 1)
                     quest == index_of(rest, 63, 1)
                     cut == IF slash = 0 /\ quest = 0 THEN Len(rest) + 1
                            ELSE IF slash = 0 THEN quest
                            ELSE IF quest = 0 THEN slash
                            ELSE IF slash < quest THEN slash ELSE quest
                     tail == split_path(SubSeq(rest, cut, Len(rest)))
                 IN  IF cut = 1 THEN [ok |-> FALSE, val |-> NoUri]
                     ELSE [ok |-> TRUE,
                           val |-> [scheme |-> Some(SubSeq(s, 1, p - 1)),
                                    authority |-> Some(SubSeq(rest, 1, cut - 1)),
                                    path |-> tail.path, query |-> tail.query]]
        ELSE IF p = 1 THEN [ok |-> FALSE, val |-> NoUri]
        ELSE [ok |-> TRUE,
              val |-> [scheme |-> None, authority |-> Some(s), path |-> <<>>,
                       query |-> None]]

\* Display for PathAndQuery: "/" when empty, a "/" put in front of text that
\* starts with neither "/" nor "*".
path_and_query_display(u) ==
    LET data == path_and_query(u)
    IN  IF data = <<>> THEN <<47>>
        ELSE IF data[1] = 47 \/ data[1] = 42 THEN data
        ELSE <<47>> \o data

\* PathAndQuery::as_str: "/" when empty, else the text as it is.
path_and_query_as_str(u) ==
    LET data == path_and_query(u)
    IN  IF data = <<>> THEN <<47>> ELSE data

\* Method::from_bytes: a non-empty token.
method_from_bytes(b) ==
    LET IsToken(c) == c > 32 /\ c < 127
                      /\ c \notin {34, 40, 41, 44, 47, 58, 59, 60, 61, 62, 63, 64,
                                   91, 92, 93, 123, 125}
    IN  [ok |-> b # <<>> /\ \A i \in DOMAIN b : IsToken(b[i]), val |-> b]

\* RequestFacts: a variant with its payload.
Method(m) == [variant |-> "Method", value |-> m]
PathAndQuery(p) == [variant |-> "PathAndQuery", value |-> p]
Body(content_type, data) ==
    [variant |-> "Body", value |-> [content_type |-> content_type, data |-> data]]
Headers(h) == [variant |-> "Headers", value |-> h]

\* RequestFacts::matches_type: equal discriminants.
matches_type(a, b) == a.variant = b.variant

\* The derived PartialEq of RequestFacts: same variant, then equal payload.
fact_eq(a, b) == a.variant = b.variant /\ a.value = b.value

\* self.facts.iter().find(|m| m.matches_type(f)): the position of the first
\* fact of f's variant at or after i, or 0.
RECURSIVE find_fact(_, _, _)
find_fact(facts, f, i) ==
    IF i > Len(facts) THEN 0
    ELSE IF matches_type(facts[i], f) THEN i
    ELSE find_fact(facts, f, i + 1)

\* matches in which a query fact without a stored fact of its variant fails.
matches_Strict(t, facts) ==
    \A k \in DOMAIN facts :
        LET my_fact == find_fact(t.facts, facts[k], 1)
        IN  my_fact # 0 /\ fact_eq(facts[k], t.facts[my_fact])

\* ArchivedRequest::matches: the query facts that have a stored fact of their
\* variant all equal it.
matches(t, facts) ==
    \A k \in DOMAIN facts :
        LET my_fact == find_fact(t.facts, facts[k], 1)
        IN  my_fact = 0 \/ fact_eq(facts[k], t.facts[my_fact])

\* request_body_and_encoding: the bytes of postData and its mime type.
request_body_and_encoding(d) ==
    IF d.comment = Some(Base64Marker)
    THEN LET dec == base64_decode(d.text)
         IN  [ok |-> dec.ok, data |-> dec.val, encoding |-> d.mime_type]
    ELSE [ok |-> TRUE, data |-> d.text, encoding |-> d.mime_type]

\* The path fact without the query.
path_fact_Path(uri) == PathAndQuery(uri.path)

\* The path fact of a parsed url: format!("{}", pq), "" without one.
path_fact(uri) ==
    PathAndQuery(IF has_path_and_query(uri) THEN path_and_query_display(uri) ELSE <<>>)

\* The facts of a request whose method, url and postData converted to method,
\* uri and d.
facts_of(r, method, uri, d) ==
    IF ~method.ok \/ ~uri.ok
    THEN [ok |-> FALSE, err |-> "InvalidMatcher", val |-> <<>>]
    ELSE IF ~d.ok THEN [ok |-> FALSE, err |-> "DecodeError", val |-> <<>>]
    ELSE [ok |-> TRUE,
          err |-> "",
          val |-> <<Method(method.val), path_fact(uri.val)>>
                  \o (IF IsSome(r.post_data) THEN <<Body(d.encoding, d.data)>> ELSE <<>>)]

\* get_facts that also stores the archived headers as a Headers fact.
get_facts_WithHeaders(r) ==
    LET facts ==
            facts_of(r,
                     method_from_bytes(to_uppercase(r.method)),
                     uri_from_str(r.url),
                     IF IsSome(r.post_data)
                     THEN request_body_and_encoding(Unwrap(r.post_data))
                     ELSE [ok |-> TRUE, data |-> <<>>, encoding |-> <<>>])
    IN  [ok |-> facts.ok,
         val |-> facts.val
                 \o <<Headers([i \in DOMAIN r.headers |->
                                 [name |-> r.headers[i].name,
                                  value |-> r.headers[i].value]])>>]

\* HarLoader::get_facts: Method, PathAndQuery, and Body when postData is
\* present; no Headers fact.
get_facts(r) ==
    facts_of(r,
             method_from_bytes(to_uppercase(r.method)),
             uri_from_str(r.url),
             IF IsSome(r.post_data) THEN request_body_and_encoding(Unwrap(r.post_data))
             ELSE [ok |-> TRUE, data |-> <<>>, encoding |-> <<>>])

\* The ArchivedRequest of entry e with the facts result of its request.
archived(e, facts) ==
    [ok |-> facts.ok,
     val |-> [original_timing |-> IF e.time < 0 THEN 0 ELSE e.time,
              facts |-> facts.val,
              response |-> e.response]]

\* HarLoader::load_entry.
load_entry(e) == archived(e, get_facts(e.request))

\* collect() of a sequence of results: the values, or an error.
collect(results) ==
    [ok |-> \A i \in DOMAIN results : results[i].ok,
     val |-> [i \in DOMAIN results |-> results[i].val]]

\* HarLoader::load: the transactions of one file's entries, in file order.
load(doc) ==
    IF doc.version # <<49, 46, 50>> THEN [ok |-> FALSE, val |-> <<>>]
    ELSE collect([i \in DOMAIN doc.entries |-> load_entry(doc.entries[i])])

\* results.extend(self.load(&f)?) in front of what the later files give.
extend(head, rest) ==
    IF ~head.ok \/ ~rest.ok THEN [ok |-> FALSE, val |-> <<>>]
    ELSE [ok |-> TRUE, val |-> head.val \o rest.val]

\* HarLoader::load_all over the files in read_dir order, from file i on.
RECURSIVE load_all(_, _)
load_all(files, i) ==
    IF i > Len(files) THEN [ok |-> TRUE, val |-> <<>>]
    ELSE extend(load(files[i]), load_all(files, i + 1))

\* The archive entries in the order load_all reads them.
RECURSIVE entries_of(_, _)
entries_of(files, i) ==
    IF i > Len(files) THEN <<>>
    ELSE files[i].entries \o entries_of(files, i + 1)

\* ---------------------------------------------------------- playback

\* convert::HttpVersion::hyper.
http_version_hyper(v) ==
    LET up == to_uppercase(v)
        known == {x \in Versions : string_for_http_version(x) = up}
    IN  IF known = {} THEN [ok |-> FALSE, val |-> "HTTP_11"]
        ELSE [ok |-> TRUE, val |-> CHOOSE x \in known : TRUE]

\* convert::Header::hyper: lower-cased name, value decoded when marked base64.
header_hyper(h) ==
    IF h.comment = Some(Base64Marker)
    THEN LET dec == base64_decode(h.value)
         IN  [ok |-> dec.ok, val |-> [name |-> to_lowercase(h.name), value |-> dec.val]]
    ELSE [ok |-> TRUE, val |-> [name |-> to_lowercase(h.name), value |-> h.value]]

\* convert::ResponseBody::hyper: the body bytes of a Content.
response_body_hyper(content) ==
    IF IsNone(content.text) THEN [ok |-> TRUE, val |-> <<>>]
    ELSE IF content.encoding = Some(Base64Marker) THEN base64_decode(Unwrap(content.text))
    ELSE [ok |-> TRUE, val |-> Unwrap(content.text)]

\* builder.body(body): the response of the converted parts, an error when
\* the status or one of the conversions is invalid.
build_response(status, version, headers, body) ==
    [ok |-> /\ status >= 100
            /\ status < 600
            /\ version.ok
            /\ \A i \in DOMAIN headers : headers[i].ok
            /\ body.ok,
     val |-> [status |-> status,
              version |-> version.val,
              headers |-> [i \in DOMAIN headers |-> headers[i].val],
              body |-> body.val]]

\* ArchivedRequest::hyper_response; `status as u16` keeps the low 16 bits.
hyper_response(t) ==
    build_response(t.response.status % 65536,
                   http_version_hyper(t.response.http_version),
                   [i \in DOMAIN t.response.headers |-> header_hyper(t.response.headers[i])],
                   response_body_hyper(t.response.content))

\* hyper_request_to_facts that pushes the Body fact for an empty body too.
hyper_request_to_facts_AlwaysBody(parts, body) ==
    LET pq == IF has_path_and_query(parts.uri) THEN path_and_query_as_str(parts.uri)
              ELSE <<>>
    IN  <<Method(parts.method), PathAndQuery(pq), Body(mime_type_of(parts.headers), body),
          Headers(parts.headers)>>

\* hyper_request_to_facts: Method, PathAndQuery, Body when the body is not
\* empty, Headers.
hyper_request_to_facts(parts, body) ==
    LET pq == IF has_path_and_query(parts.uri) THEN path_and_query_as_str(parts.uri)
              ELSE <<>>
        content_type == mime_type_of(parts.headers)
    IN  <<Method(parts.method), PathAndQuery(pq)>>
        \o (IF body # <<>> THEN <<Body(content_type, body)>> ELSE <<>>)
        \o <<Headers(parts.headers)>>

\* transactions.iter().find(|t| t.matches(&facts)) from position i on: the
\* position found, or 0.
RECURSIVE find_from(_, _, _)
find_from(ts, facts, i) ==
    IF i > Len(ts) THEN 0
    ELSE IF matches(ts[i], facts) THEN i
    ELSE find_from(ts, facts, i + 1)

\* find_match that keeps the last matching transaction.
find_match_Last(ts, parts, body) ==
    LET facts == hyper_request_to_facts(parts, body)
        hits == {i \in DOMAIN ts : matches(ts[i], facts)}
    IN  IF hits = {} THEN 0 ELSE CHOOSE i \in hits : \A j \in hits : j <= i

\* find_match: the position of the first matching transaction, or 0.
find_match(ts, parts, body) ==
    find_from(ts, hyper_request_to_facts(parts, body), 1)

\* Response::builder().status(404).body("Not Found").
not_found ==
    [status |-> 404, version |-> "HTTP_11", headers |-> <<>>, body |-> NotFoundBody]

\* The Some / None arms of the closure with the first transaction served on a
\* miss.
serve_FirstOnMiss(ts, m) ==
    IF m # 0 THEN [from |-> m, response |-> hyper_response(ts[m])]
    ELSE IF ts # <<>> THEN [from |-> 0, response |-> hyper_response(ts[1])]
    ELSE [from |-> 0, response |-> [ok |-> TRUE, val |-> not_found]]

\* The Some / None arms of the closure run on the request body: the stored
\* response of the transaction found at m, or the 404 when m is 0.
serve(ts, m) ==
    IF m # 0 THEN [from |-> m, response |-> hyper_response(ts[m])]
    ELSE [from |-> 0, response |-> [ok |-> TRUE, val |-> not_found]]

\* The closure run on the request body: find_match, then serve.
on_body(ts, parts, body) == serve(ts, find_match(ts, parts, body))

\* An archived GET of http://up.test/a without body, answered 200 "hi".
EntryGetA ==
    [started_date_time |-> 0, time |-> 1,
     request |-> record_request(new,
                    [method |-> GET, uri |-> UriUpA, version |-> "HTTP_11",
                     headers |-> <<[name |-> HostName, value |-> AuthorityUp]>>],
                    <<>>).request[1],
     response |-> record_response(new,
                    [status |-> 200, version |-> "HTTP_11",
                     headers |-> <<[name |-> ContentTypeName, value |-> TextPlain]>>],
                    BodyHi).response[1]]

\* A hand-written entry for the same request, "get /a", answered 204 with a
\* negative time.
EntryGetAgain ==
    [started_date_time |-> 0, time |-> -1,
     request |-> [method |-> get_lower, url |-> PathA,
                  http_version |-> string_for_http_version("HTTP_11"),
                  headers |-> <<>>, post_data |-> None, comment |-> None],
     response |-> [status |-> 204,
                   http_version |-> string_for_http_version("HTTP_11"),
                   headers |-> <<>>,
                   content |-> response_body_to_har(<<>>, <<>>)]]

\* An archived POST of http://up.test/b?q=1 with a binary text/plain body,
\* whose response has an HTTP version hyper does not know.
EntryPostB ==
    [started_date_time |-> 0, time |-> 0,
     request |-> record_request(new,
                    [method |-> POST, uri |-> UriUpB, version |-> "HTTP_11",
                     headers |-> <<[name |-> ContentTypeName, value |-> TextPlain]>>],
                    BodyBin).request[1],
     response |-> [status |-> 200,
                   http_version |-> <<72, 84, 84, 80, 47, 51>>,
                   headers |-> <<>>,
                   content |-> response_body_to_har(BodyBin, <<>>)]]

\* The files a project directory may hold, one entry each.
ArchiveFiles ==
    << [version |-> <<49, 46, 50>>, entries |-> <<EntryGetA>>],
       [version |-> <<49, 46, 50>>, entries |-> <<EntryGetAgain>>],
       [version |-> <<49, 46, 50>>, entries |-> <<EntryPostB>>] >>

\* A project directory in read_dir order: files are named by position.
ProjectDirs ==
    UNION { { [i \in 1 .. n |-> ArchiveFiles[ix[i]]] :
                ix \in [1 .. n -> DOMAIN ArchiveFiles] } : n \in 0 .. MaxTransactions }

\* Inbound (parts, body) pairs of the playback server.
PlayInbound ==
    << [parts |-> [method |-> GET,
                   uri |-> [scheme |-> None, authority |-> None, path |-> PathA,
                            query |-> None],
                   headers |-> <<>>],
        body |-> <<>>],
       [parts |-> [method |-> GET,
                   uri |-> [scheme |-> None, authority |-> None, path |-> PathA,
                            query |-> None],
                   headers |-> <<[name |-> ContentTypeName, value |-> TextPlain],
                                 [name |-> XBinName, value |-> BodyBin]>>],
        body |-> BodyHi],
       [parts |-> [method |-> POST,
                   uri |-> [scheme |-> None, authority |-> None, path |-> PathB,
                            query |-> Some(QueryQ)],
                   headers |-> <<[name |-> ContentTypeName, value |-> TextPlain]>>],
        body |-> BodyBin],
       [parts |-> [method |-> POST,
                   uri |-> [scheme |-> None, authority |-> None, path |-> PathB,
                            query |-> Some(QueryQ)],
                   headers |-> <<[name |-> ContentTypeName, value |-> TextPlain]>>],
        body |-> BodyHi],
       [parts |-> [method |-> POST,
                   uri |-> [scheme |-> None, authority |-> None, path |-> PathB,
                            query |-> Some(QueryQ)],
                   headers |-> <<[name |-> ContentTypeName, value |-> TextPlain]>>],
        body |-> <<>>],
       [parts |-> [method |-> POST,
                   uri |-> [scheme |-> None, authority |-> None, path |-> PathB,
                            query |-> Some(QueryQ)],
                   headers |-> <<>>],
        body |-> BodyBin] >>

\* The playback server was started on a project directory that loads.
StartedOn(files, loaded) ==
    /\ loaded.ok
    /\ fs = files
    /\ transactions = loaded.val

PlayLoaded == \E files \in ProjectDirs : StartedOn(files, load_all(files, 1))

\* PlaybackService::call up to the returned future.
PlayArrive(r) ==
    /\ px[r].pc = "idle"
    /\ \A q \in Requests : q < r => px[q].pc # "idle"
    /\ \E i \in DOMAIN PlayInbound :
        px' = [px EXCEPT ![r] = [IdlePx EXCEPT !.pc = "body",
                                               !.parts = Some(PlayInbound[i].parts),
                                               !.body = PlayInbound[i].body]]
    /\ UNCHANGED <<fs, sessionVars, recordVars, applyVars, transactions, query, verdict>>

\* body.concat2() fails.
PlayBodyFail(r) ==
    /\ px[r].pc = "body"
    /\ px' = [px EXCEPT ![r].pc = "failed"]
    /\ UNCHANGED <<fs, sessionVars, recordVars, applyVars, transactions, query, verdict>>

\* The future of a request after its body closure gave answer a.
Answered(p, a) ==
    [p EXCEPT !.pc = IF a.from = 0 THEN "replied" ELSE "delay",
              !.from = Some(a.from),
              !.response = Some(a.response),
              !.reply = IF a.from = 0 THEN Some(a.response.val) ELSE None]

\* The body closure taking the matched transaction out of the shared list.
PlayBodyDone_Consume(r) ==
    /\ px[r].pc = "body"
    /\ LET a == on_body(transactions, Unwrap(px[r].parts), px[r].body)
       IN  /\ px' = [px EXCEPT ![r] = Answered(px[r], a)]
           /\ transactions' = IF a.from = 0 THEN transactions
                              ELSE [i \in 1..(Len(transactions) - 1) |->
                                      IF i < a.from THEN transactions[i]
                                      ELSE transactions[i + 1]]
    /\ UNCHANGED <<fs, sessionVars, recordVars, applyVars, query, verdict>>

\* body.concat2() resolves: find_match, then the 404 at once or the stored
\* response behind the delay.
PlayBodyDone(r) ==
    /\ px[r].pc = "body"
    /\ px' = [px EXCEPT ![r] =
                Answered(px[r], on_body(transactions, Unwrap(px[r].parts), px[r].body))]
    /\ UNCHANGED <<fs, sessionVars, recordVars, applyVars, transactions, query, verdict>>

\* The delay elapses: the stored response, or the error of building it.
PlayDelayDone(r) ==
    /\ px[r].pc = "delay"
    /\ LET response == Unwrap(px[r].response)
       IN  px' = [px EXCEPT ![r].pc = IF response.ok THEN "replied" ELSE "failed",
                            ![r].reply = IF response.ok THEN Some(response.val) ELSE None]
    /\ UNCHANGED <<fs, sessionVars, recordVars, applyVars, transactions, query, verdict>>

\* The timer fails.
PlayDelayFail(r) ==
    /\ px[r].pc = "delay"
    /\ px' = [px EXCEPT ![r].pc = "failed"]
    /\ UNCHANGED <<fs, sessionVars, recordVars, applyVars, transactions, query, verdict>>

InitPlay ==
    /\ PlayLoaded
    /\ px = [r \in Requests |-> IdlePx]
    /\ query = <<>>
    /\ verdict = None
    /\ SessionUnused
    /\ RecordUnused
    /\ ApplyUnused

NextPlay ==
    \/ \E r \in Requests : PlayArrive(r)
    \/ \E r \in Requests : PlayBodyFail(r)
    \/ \E r \in Requests : PlayBodyDone(r)
    \/ \E r \in Requests : PlayDelayDone(r)
    \/ \E r \in Requests : PlayDelayFail(r)

SpecPlay == InitPlay /\ [][NextPlay]_vars

\* ------------------------------------------------ matches on its own

\* Facts a query may hold.
QueryFacts ==
    << Method(GET), Method(POST), PathAndQuery(PathA),
       PathAndQuery(PathB \o <<63>> \o QueryQ),
       Body(TextPlain, BodyBin), Body(<<>>, BodyBin), Headers(<<>>) >>

\* t.matches(&query) for every loaded transaction t.
Match ==
    /\ IsNone(verdict)
    /\ verdict' = Some([i \in DOMAIN transactions |-> matches(transactions[i], query)])
    /\ UNCHANGED <<fs, sessionVars, recordVars, applyVars, transactions, px, query>>

InitMatch ==
    /\ PlayLoaded
    /\ \E n \in 0 .. MaxFacts : \E ix \in [1 .. n -> DOMAIN QueryFacts] :
          query = [k \in 1 .. n |-> QueryFacts[ix[k]]]
    /\ verdict = None
    /\ px = [r \in Requests |-> IdlePx]
    /\ SessionUnused
    /\ RecordUnused
    /\ ApplyUnused

NextMatch == Match

SpecMatch == InitMatch /\ [][NextMatch]_vars

\* ------------------------------------- one recording, from request to file

\* "https", "other.test"
SchemeHttps == <<104, 116, 116, 112, 115>>
AuthorityOther == <<111, 116, 104, 101, 114, 46, 116, 101, 115, 116>>

\* Configured upstreams (proxy_for) of record servers.
Upstreams ==
    << ProxyFor,
       [scheme |-> Some(SchemeHttps), authority |-> Some(AuthorityOther),
        path |-> <<47>>, query |-> None] >>

\* Inbound requests: GET /a without headers, GET /a with two headers,
\* POST /b?q=1 with a binary body, and GET /a with the body "hi".
RelocateInbound ==
    << [head |-> [method |-> GET,
                  uri |-> [scheme |-> None, authority |-> None, path |-> PathA,
                           query |-> None],
                  version |-> "HTTP_11",
                  headers |-> <<>>],
        body |-> <<>>],
       [head |-> [method |-> GET,
                  uri |-> [scheme |-> None, authority |-> None, path |-> PathA,
                           query |-> None],
                  version |-> "HTTP_11",
                  headers |-> <<[name |-> ContentTypeName, value |-> TextPlain],
                                [name |-> ConnectionName, value |-> CloseValue]>>],
        body |-> <<>>],
       [head |-> [method |-> POST,
                  uri |-> [scheme |-> None, authority |-> None, path |-> PathB,
                           query |-> Some(QueryQ)],
                  version |-> "HTTP_11",
                  headers |-> <<[name |-> ContentTypeName, value |-> TextPlain]>>],
        body |-> BodyBin],
       [head |-> [method |-> GET,
                  uri |-> [scheme |-> None, authority |-> None, path |-> PathA,
                           query |-> None],
                  version |-> "HTTP_11",
                  headers |-> <<>>],
        body |-> BodyHi] >>

\* Upstream answers of a recording: 200 "hi" and 200 with an empty body.
RelocateResponses ==
    << [head |-> [status |-> 200, version |-> "HTTP_11",
                  headers |-> <<[name |-> ContentTypeName, value |-> TextPlain]>>],
        body |-> BodyHi],
       [head |-> [status |-> 200, version |-> "HTTP_11",
                  headers |-> <<[name |-> ContentTypeName, value |-> TextPlain]>>],
        body |-> <<>>] >>

\* The request head ProxyService::call sends to upstream.
proxied_head(head, upstream) ==
    create_proxied_request(head,
                           calculate_target_uri(head.uri, upstream).val,
                           extract_authority(upstream).val)

\* commit's result and the file write_to_dir names for the proxied head.
named(c, head) ==
    [fingerprint |-> c.ret,
     file_name |-> write_to_dir(c.s, head.method \o <<46>> \o head.uri.path).file_name,
     document |-> har_document(c.s)]

\* The calls the future makes on its HarSession for the proxied head and the
\* request body, started at t0 and committed at t1.
record_through(head, body, response, t0, t1) ==
    named(commit(record_response(start_session(record_request(new, head, body), t0),
                                 create_proxied_response(response.head),
                                 response.body),
                 t1),
          head)

\* One transaction through the record pipeline of a server configured with
\* an upstream.
recording(a) ==
    record_through(proxied_head(a.inbound.head, a.upstream), a.inbound.body,
                   a.response, a.t0, a.t1)

\* Two recordings are made.
Relocate ==
    /\ IsNone(output)
    /\ output' = Some(<<recording(input[1]), recording(input[2])>>)
    /\ UNCHANGED <<fs, sessionVars, recordVars, playVars, input>>

InitRelocate ==
    /\ \E i, j \in DOMAIN RelocateInbound, u, v \in DOMAIN Upstreams,
          t \in RecordClock \X RecordClock \X RecordClock \X RecordClock :
          input = << [inbound |-> RelocateInbound[i], upstream |-> Upstreams[u],
                      response |-> RelocateResponses[1], t0 |-> t[1], t1 |-> t[2]],
                     [inbound |-> RelocateInbound[j], upstream |-> Upstreams[v],
                      response |-> RelocateResponses[1], t0 |-> t[3], t1 |-> t[4]] >>
    /\ output = None
    /\ fs = <<>>
    /\ SessionUnused
    /\ RecordUnused
    /\ PlayUnused

NextRelocate == Relocate

SpecRelocate == InitRelocate /\ [][NextRelocate]_vars

\* ------------------------------------------------ normalize_path alone

\* Characters of the inputs: a Z 5 _ . / " " - and the two-byte e-acute.
Symbols ==
    << <<97>>, <<90>>, <<53>>, <<95>>, <<46>>, <<47>>, <<32>>, <<45>>, <<195, 169>> >>

\* Characters an input is padded with: a, " " and e-acute.
PadSymbols == << <<97>>, <<32>>, <<195, 169>> >>

\* The strings of at most n Symbols.
RECURSIVE Tails(_)
Tails(n) ==
    IF n = 0 THEN {<<>>}
    ELSE LET t == Tails(n - 1)
         IN  t \cup {x \o Symbols[i] : x \in t, i \in DOMAIN Symbols}

\* n times the character sym.
RECURSIVE Repeat(_, _)
Repeat(sym, n) == IF n = 0 THEN <<>> ELSE sym \o Repeat(sym, n - 1)

\* The inputs of test_normalize_path.
TestPath ==
    <<47, 116, 101, 115, 116, 47, 46, 47, 112, 97, 116, 104, 63, 113, 61,
      50, 48>>
TestNothing ==
    <<110, 79, 116, 104, 49, 110, 103, 95, 105, 110, 95, 72, 101, 114,
      51>>
TestLonger ==
    <<116, 104, 105, 115, 32, 105, 115, 32, 108, 111, 110, 103, 101, 114,
      32, 116, 104, 97, 110, 32, 50, 48, 32, 99, 104, 97, 114, 97, 99,
      116, 101, 114, 115>>
TestDots ==
    <<100, 111, 116, 115, 46, 111, 107>>
TestStrings == {TestPath, TestNothing, TestLonger, TestDots}

\* Base names handed to normalize_path.
BaseNames ==
    TestStrings
    \cup {Repeat(PadSymbols[p], n) \o t :
             p \in DOMAIN PadSymbols, n \in 0..MaxPad, t \in Tails(MaxTail)}

\* normalize_path(input).
Normalize ==
    /\ IsNone(output)
    /\ output' = Some(normalize_path(input))
    /\ UNCHANGED <<fs, sessionVars, recordVars, playVars, input>>

InitNormalize ==
    /\ input \in BaseNames
    /\ output = None
    /\ fs = <<>>
    /\ SessionUnused
    /\ RecordUnused
    /\ PlayUnused

NextNormalize == Normalize

SpecNormalize == InitNormalize /\ [][NextNormalize]_vars

\* --------------------------------------- write_to_dir calls side by side

\* The futures that reach write_to_dir at the same time, each on its own
\* worker thread of the runtime.
Writers == 1..NumRequests

\* The position of a writer: its session is committed, its file is created,
\* its document is written.
WriterIdle == [w \in Writers |-> "committed"]

\* File::create of writer w: the file exists and is empty.
Create(w) ==
    /\ output.pc[w] = "committed"
    /\ fs' = (Unwrap(input[w].file_name) :> Truncated) @@ fs
    /\ output' = [output EXCEPT !.pc[w] = "created"]
    /\ UNCHANGED <<sessionVars, recordVars, playVars, input>>

\* to_writer_pretty of writer w, taken as one step, then the handle is
\* dropped.
WriteAll(w) ==
    /\ output.pc[w] = "created"
    /\ fs' = (Unwrap(input[w].file_name)
                :> write_from_start(fs[Unwrap(input[w].file_name)], input[w].document))
             @@ fs
    /\ output' = [output EXCEPT !.pc[w] = "written", !.wrote = Append(@, w)]
    /\ UNCHANGED <<sessionVars, recordVars, playVars, input>>

\* Every writer holds the committed session of one recording.
InitWrite ==
    /\ \E i \in [Writers -> DOMAIN RelocateInbound],
          p \in [Writers -> DOMAIN RelocateResponses] :
          input = [w \in Writers |->
                     recording([inbound |-> RelocateInbound[i[w]],
                                upstream |-> ProxyFor,
                                response |-> RelocateResponses[p[w]],
                                t0 |-> 0, t1 |-> 0])]
    /\ output = [pc |-> WriterIdle, wrote |-> <<>>]
    /\ fs = <<>>
    /\ SessionUnused
    /\ RecordUnused
    /\ PlayUnused

NextWrite ==
    \/ \E w \in Writers : Create(w)
    \/ \E w \in Writers : WriteAll(w)

SpecWrite == InitWrite /\ [][NextWrite]_vars

\* ------------------------------------------- record, then load and replay

\* Inbound requests of a round trip: those above, and "get /a" with the
\* method token in lower case.
RoundTripInbound ==
    RelocateInbound
    \o << [head |-> [method |-> get_lower,
                     uri |-> [scheme |-> None, authority |-> None, path |-> PathA,
                              query |-> None],
                     version |-> "HTTP_11",
                     headers |-> <<>>],
           body |-> <<>>] >>

\* Upstream answers of a round trip: those above, and 200 with a
\* "connection: close" header and a binary body.
RoundTripResponses ==
    RelocateResponses
    \o << [head |-> [status |-> 200, version |-> "HTTP_11",
                     headers |-> <<[name |-> ContentTypeName, value |-> TextPlain],
                                   [name |-> ConnectionName, value |-> CloseValue]>>],
           body |-> BodyBin] >>

\* A playback server started on the transactions ts handles the request.
replayed(doc, ts, parts, body) ==
    [stage |-> "replayed",
     file |-> doc,
     loaded |-> ts.ok,
     answer |-> IF ts.ok THEN on_body(ts.val, parts, body)
                ELSE [from |-> 0, response |-> [ok |-> FALSE, val |-> not_found]]]

\* The record server handles the inbound request and writes the file.
RecordOne ==
    /\ output = None
    /\ output' = [stage |-> "recorded", file |-> recording(input).document]
    /\ UNCHANGED <<fs, sessionVars, recordVars, playVars, input>>

\* The file is loaded and the playback server gets the same inbound request.
Replay ==
    /\ output # None
    /\ output.stage = "recorded"
    /\ output' = replayed(output.file, load(output.file), input.inbound.head,
                          input.inbound.body)
    /\ UNCHANGED <<fs, sessionVars, recordVars, playVars, input>>

InitRoundTrip ==
    /\ \E i \in DOMAIN RoundTripInbound, u \in DOMAIN Upstreams,
          p \in DOMAIN RoundTripResponses, t \in RecordClock :
          input = [inbound |-> RoundTripInbound[i], upstream |-> Upstreams[u],
                   response |-> RoundTripResponses[p], t0 |-> 0, t1 |-> t]
    /\ output = None
    /\ fs = <<>>
    /\ SessionUnused
    /\ RecordUnused
    /\ PlayUnused

NextRoundTrip == RecordOne \/ Replay

SpecRoundTrip == InitRoundTrip /\ [][NextRoundTrip]_vars

\* ------------------------------------------------- the playback delay

\* DelayOptions of a playback server: None, Original, Static{millis}.
DelayOptions ==
    {[method |-> "None", millis |-> 0], [method |-> "Original", millis |-> 0]}
    \cup {[method |-> "Static", millis |-> ms] : ms \in 0 .. MaxMillis}

\* Delay::new(..) of a delay that waits for nothing.
delay_Now(t, d, now) == now

\* ArchivedRequest::delay called at Instant now: the deadline of the Delay.
delay(t, d, now) ==
    CASE d.method = "None" -> now
      [] d.method = "Original" -> now + t.original_timing
      [] d.method = "Static" -> now + d.millis

\* Entries whose time is -1, 0 .. MaxMillis milliseconds.
TimedEntries == {[EntryGetA EXCEPT !.time = ms] : ms \in -1 .. MaxMillis}

\* The playback request before it arrives, on the monotonic clock.
DelayIdle == [pc |-> "idle", clock |-> 0, t0 |-> 0, deadline |-> 0, emitted |-> 0]

\* Instant::now() moves on.
DelayTick ==
    /\ output.clock < MaxMillis + MaxMillis
    /\ output' = [output EXCEPT !.clock = @ + 1]
    /\ UNCHANGED <<fs, sessionVars, recordVars, playVars, input>>

\* The request for the transaction arrives.
DelayArrive ==
    /\ output.pc = "idle"
    /\ output' = [output EXCEPT !.pc = "body", !.t0 = output.clock]
    /\ UNCHANGED <<fs, sessionVars, recordVars, playVars, input>>

\* The body closure finds the transaction and calls m.delay(&delay).
DelayStart ==
    /\ output.pc = "body"
    /\ output' = [output EXCEPT
                     !.pc = "delay",
                     !.deadline = delay(input.transaction, input.delay, output.clock)]
    /\ UNCHANGED <<fs, sessionVars, recordVars, playVars, input>>

\* The Delay resolves, not before its deadline, and the response is emitted.
DelayElapsed ==
    /\ output.pc = "delay"
    /\ output.clock >= output.deadline
    /\ output' = [output EXCEPT !.pc = "replied", !.emitted = output.clock]
    /\ UNCHANGED <<fs, sessionVars, recordVars, playVars, input>>

\* The timer fails: nothing is emitted.
DelayError ==
    /\ output.pc = "delay"
    /\ output' = [output EXCEPT !.pc = "failed"]
    /\ UNCHANGED <<fs, sessionVars, recordVars, playVars, input>>

InitDelay ==
    /\ \E e \in TimedEntries, d \in DelayOptions :
          input = [entry |-> e, transaction |-> load_entry(e).val, delay |-> d]
    /\ output = DelayIdle
    /\ fs = <<>>
    /\ SessionUnused
    /\ RecordUnused
    /\ PlayUnused

NextDelay == DelayTick \/ DelayArrive \/ DelayStart \/ DelayElapsed \/ DelayError

SpecDelay == InitDelay /\ [][NextDelay]_vars

\* --------------------------------------- forwarding: request and response

\* Headers of inbound requests and upstream responses: the eight hop-by-hop
\* names with the value "x", "host: client.test", "content-type: text/plain".
HeaderPool ==
    << [name |-> <<99, 111, 110, 110, 101, 99, 116, 105, 111, 110>>,
        value |-> <<120>>],
       [name |-> <<107, 101, 101, 112, 45, 97, 108, 105, 118, 101>>,
        value |-> <<120>>],
       [name |-> <<112, 114, 111, 120, 121, 45, 97, 117, 116, 104, 101, 110, 116, 105, 99, 97, 116, 101>>,
        value |-> <<120>>],
       [name |-> <<112, 114, 111, 120, 121, 45, 97, 117, 116, 104, 111, 114, 105, 122, 97, 116, 105, 111, 110>>,
        value |-> <<120>>],
       [name |-> <<116, 101>>,
        value |-> <<120>>],
       [name |-> <<116, 114, 97, 105, 108, 101, 114, 115>>,
        value |-> <<120>>],
       [name |-> <<116, 114, 97, 110, 115, 102, 101, 114, 45, 101, 110, 99, 111, 100, 105, 110, 103>>,
        value |-> <<120>>],
       [name |-> <<117, 112, 103, 114, 97, 100, 101>>,
        value |-> <<120>>],
       [name |-> <<104, 111, 115, 116>>,
        value |-> <<99, 108, 105, 101, 110, 116, 46, 116, 101, 115, 116>>],
       [name |-> <<99, 111, 110, 116, 101, 110, 116, 45, 116, 121, 112, 101>>,
        value |-> <<116, 101, 120, 116, 47, 112, 108, 97, 105, 110>>] >>

\* The header lists of at most MaxHeaders headers of the pool.
HeaderLists ==
    UNION { { [i \in 1 .. n |-> HeaderPool[ix[i]]] : ix \in [1 .. n -> DOMAIN HeaderPool] } :
            n \in 0 .. MaxHeaders }

\* Configured upstreams: the two above, "/x" (no authority), and "up.test"
\* (an authority without scheme).
ForwardUpstreams ==
    Upstreams
    \o << [scheme |-> None, authority |-> None, path |-> <<47, 120>>, query |-> None],
          [scheme |-> None, authority |-> Some(AuthorityUp), path |-> <<>>,
           query |-> None] >>

\* Request targets: /a, /b?q=1, and the authority form "up.test" of CONNECT.
ForwardTargets ==
    << [scheme |-> None, authority |-> None, path |-> PathA, query |-> None],
       [scheme |-> None, authority |-> None, path |-> PathB, query |-> Some(QueryQ)],
       [scheme |-> None, authority |-> Some(AuthorityUp), path |-> <<>>,
        query |-> None] >>

\* MakeProxyService::make_service: the Host value of the service, or
\* AuthorityError.
make_service(proxy_for) ==
    [ok |-> extract_authority(proxy_for).ok,
     err |-> IF extract_authority(proxy_for).ok THEN "" ELSE "AuthorityError",
     host_header |-> extract_authority(proxy_for).val]

\* The head the service of svc sends upstream for target, or its error.
forward_to(head, target, svc) ==
    IF ~svc.ok THEN [ok |-> FALSE, err |-> svc.err, head |-> head]
    ELSE IF ~target.ok THEN [ok |-> FALSE, err |-> target.err, head |-> head]
    ELSE [ok |-> TRUE, err |-> "",
          head |-> create_proxied_request(head, target.val, svc.host_header)]

\* make_service, then ProxyService::call up to the proxied request.
Forward ==
    /\ output = None
    /\ output' = [stage |-> "forwarded",
                  forwarded |-> forward_to(input.inbound.head,
                                           calculate_target_uri(input.inbound.head.uri,
                                                                input.upstream),
                                           make_service(input.upstream))]
    /\ UNCHANGED <<fs, sessionVars, recordVars, playVars, input>>

\* The upstream answers: the response handed to the client and the document
\* archived.
Answer ==
    /\ output # None
    /\ output.stage = "forwarded"
    /\ output.forwarded.ok
    /\ output' = [stage |-> "answered",
                  forwarded |-> output.forwarded,
                  returned |-> [status |-> input.response.head.status,
                                headers |-> create_proxied_response(input.response.head)
                                               .headers,
                                body |-> input.response.body],
                  stored |-> record_through(output.forwarded.head, input.inbound.body,
                                            input.response, 0, 0).document]
    /\ UNCHANGED <<fs, sessionVars, recordVars, playVars, input>>

InitForward ==
    /\ \E h \in HeaderLists, u \in DOMAIN ForwardUpstreams, g \in DOMAIN ForwardTargets :
          input = [inbound |-> [head |-> [method |-> GET, uri |-> ForwardTargets[g],
                                          version |-> "HTTP_11", headers |-> h],
                                body |-> <<>>],
                   upstream |-> ForwardUpstreams[u],
                   response |-> [head |-> [status |-> 200, version |-> "HTTP_11",
                                           headers |-> h],
                                 body |-> BodyBin]]
    /\ output = None
    /\ fs = <<>>
    /\ SessionUnused
    /\ RecordUnused
    /\ PlayUnused

NextForward == Forward \/ Answer

SpecForward == InitForward /\ [][NextForward]_vars

\* ------------------------------------------------ convert: the codec

\* Bytes of values and bodies: NUL, "h", the two bytes of U+00E9, and 0xFF.
CodecBytes == {0, 104, 195, 169, 255}

\* The byte sequences of at most MaxBytes bytes.
ByteStrings == UNION {[1 .. n -> CodecBytes] : n \in 0 .. MaxBytes}

\* What HeaderValue accepts: no control character but the tab, no DEL.
is_header_value(b) == \A i \in DOMAIN b : (b[i] >= 32 /\ b[i] # 127) \/ b[i] = 9

\* convert::maybe_encode with the marker left off: base64 text passed as text.
maybe_encode_Unmarked(b) ==
    IF is_utf8(b) THEN [text |-> b, encoded |-> FALSE]
    ELSE [text |-> base64_encode(b), encoded |-> FALSE]

\* convert::maybe_encode: the String of valid UTF-8, else its base64.
maybe_encode(b) ==
    IF is_utf8(b) THEN [text |-> b, encoded |-> FALSE]
    ELSE [text |-> base64_encode(b), encoded |-> TRUE]

\* convert::Header::har.
header_har(key, val) ==
    [name |-> key,
     value |-> maybe_encode(val).text,
     comment |-> IF maybe_encode(val).encoded THEN Some(Base64Marker) ELSE None]

\* convert::RequestBody::har.
request_body_har(body, mime_type) ==
    IF body = <<>> THEN None
    ELSE Some([mime_type |-> mime_type,
               text |-> maybe_encode(body).text,
               comment |-> IF maybe_encode(body).encoded THEN Some(Base64Marker)
                           ELSE None])

\* convert::RequestBody::bytes.
request_body_bytes(data) ==
    IF data.comment = Some(Base64Marker)
    THEN [ok |-> base64_decode(data.text).ok, val |-> base64_decode(data.text).val]
    ELSE [ok |-> TRUE, val |-> data.text]

\* convert::ResponseBody::har.
response_body_har(body, mime_type) ==
    [size |-> Len(body),
     mime_type |-> mime_type,
     text |-> IF maybe_encode(body).text = <<>> THEN None
              ELSE Some(maybe_encode(body).text),
     encoding |-> IF maybe_encode(body).encoded THEN Some(Base64Marker) ELSE None]

\* Header::har on a header with the value b.
EncodeHeader ==
    /\ output = None
    /\ is_header_value(input)
    /\ output' = [of |-> "header", har |-> header_har(XBinName, input)]
    /\ UNCHANGED <<fs, sessionVars, recordVars, playVars, input>>

\* RequestBody::har on the body b.
EncodeRequestBody ==
    /\ output = None
    /\ output' = [of |-> "request", har |-> request_body_har(input, TextPlain)]
    /\ UNCHANGED <<fs, sessionVars, recordVars, playVars, input>>

\* ResponseBody::har on the body b.
EncodeResponseBody ==
    /\ output = None
    /\ output' = [of |-> "response", har |-> response_body_har(input, TextPlain)]
    /\ UNCHANGED <<fs, sessionVars, recordVars, playVars, input>>

\* The bytes the decoder of the archive form gives: Header::hyper,
\* RequestBody::bytes (a request without postData has no body), and
\* ResponseBody::hyper.
Decode ==
    /\ output # None
    /\ "back" \notin DOMAIN output
    /\ output' =
          [of |-> output.of,
           har |-> output.har,
           back |-> CASE output.of = "header" ->
                           [ok |-> header_hyper(output.har).ok,
                            val |-> header_hyper(output.har).val.value]
                      [] output.of = "request" ->
                           IF IsNone(output.har) THEN [ok |-> TRUE, val |-> <<>>]
                           ELSE request_body_bytes(Unwrap(output.har))
                      [] output.of = "response" -> response_body_hyper(output.har)]
    /\ UNCHANGED <<fs, sessionVars, recordVars, playVars, input>>

InitCodec ==
    /\ input \in ByteStrings
    /\ output = None
    /\ fs = <<>>
    /\ SessionUnused
    /\ RecordUnused
    /\ PlayUnused

NextCodec == EncodeHeader \/ EncodeRequestBody \/ EncodeResponseBody \/ Decode

SpecCodec == InitCodec /\ [][NextCodec]_vars

\* ------------------------------------------------ loading at start-up

\* An entry whose method is "G T", which is no token.
EntryBadMethod == [EntryGetAgain EXCEPT !.request.method = <<71, 32, 84>>]

\* Directory entries: whether find_requests accepts the path (a file whose
\* name ends in ".json"), whether File::open succeeds, whether the bytes parse
\* as a HAR document, and the document.  A good file of two entries, a file
\* that cannot be opened, a file that is not JSON, a HAR 1.1 document, a
\* document whose second entry has an invalid method, and notes.txt.
DirEntries ==
    << [accepted |-> TRUE, open |-> TRUE, json |-> TRUE,
        doc |-> [version |-> <<49, 46, 50>>, entries |-> <<EntryGetA, EntryPostB>>]],
       [accepted |-> TRUE, open |-> FALSE, json |-> TRUE,
        doc |-> [version |-> <<49, 46, 50>>, entries |-> <<EntryGetA>>]],
       [accepted |-> TRUE, open |-> TRUE, json |-> FALSE, doc |-> Truncated],
       [accepted |-> TRUE, open |-> TRUE, json |-> TRUE,
        doc |-> [version |-> <<49, 46, 49>>, entries |-> <<EntryGetA>>]],
       [accepted |-> TRUE, open |-> TRUE, json |-> TRUE,
        doc |-> [version |-> <<49, 46, 50>>, entries |-> <<EntryGetA, EntryBadMethod>>]],
       [accepted |-> FALSE, open |-> TRUE, json |-> FALSE, doc |-> Truncated] >>

\* The project directories: a path that is no directory, and the
\* directories of at most MaxFiles entries in read_dir order.
RecordingDirs ==
    {[is_dir |-> FALSE, files |-> <<>>]}
    \cup UNION { { [is_dir |-> TRUE, files |-> [i \in 1 .. n |-> DirEntries[ix[i]]]] :
                     ix \in [1 .. n -> DOMAIN DirEntries] } : n \in 0 .. MaxFiles }

\* HarLoader::find_requests: the accepted paths, in read_dir order.
find_requests(dir) ==
    IF ~dir.is_dir THEN [ok |-> FALSE, err |-> "NotFound", val |-> <<>>]
    ELSE [ok |-> TRUE, err |-> "", val |-> SelectSeq(dir.files, LAMBDA f : f.accepted)]

\* HarLoader::load that gives the entries it could convert.
load_path_Lenient(f) ==
    [ok |-> TRUE, err |-> "",
     val |-> IF f.open /\ f.json /\ load(f.doc).ok THEN load(f.doc).val ELSE <<>>]

\* HarLoader::load on a path: File::open, serde_json::from_reader, the
\* version check, and load_entry on every entry.
load_path(f) ==
    IF ~f.open THEN [ok |-> FALSE, err |-> "Io", val |-> <<>>]
    ELSE IF ~f.json THEN [ok |-> FALSE, err |-> "Json", val |-> <<>>]
    ELSE IF f.doc.version # <<49, 46, 50>>
    THEN [ok |-> FALSE, err |-> "InvalidVersion", val |-> <<>>]
    ELSE IF ~load(f.doc).ok
    THEN [ok |-> FALSE,
          err |-> get_facts(f.doc.entries[
                      CHOOSE k \in DOMAIN f.doc.entries :
                          /\ ~get_facts(f.doc.entries[k].request).ok
                          /\ \A j \in 1 .. k - 1 : get_facts(f.doc.entries[j].request).ok
                  ].request).err,
          val |-> <<>>]
    ELSE [ok |-> TRUE, err |-> "", val |-> load(f.doc).val]

\* The loop of load_all from file i on: the first error ends it.
RECURSIVE load_from(_, _, _)
load_from(files, i, results) ==
    IF i > Len(files) THEN [ok |-> TRUE, err |-> "", val |-> results]
    ELSE IF ~load_path(files[i]).ok
    THEN [ok |-> FALSE, err |-> load_path(files[i]).err, val |-> <<>>]
    ELSE load_from(files, i + 1, results \o load_path(files[i]).val)

\* HarLoader::load_all on a directory.
load_all_in(dir) ==
    IF ~find_requests(dir).ok
    THEN [ok |-> FALSE, err |-> find_requests(dir).err, val |-> <<>>]
    ELSE load_from(find_requests(dir).val, 1, <<>>)

\* Config::try_into_playback_servers from project i on: the projects with a
\* playback section, each with its loaded archives; the first error ends it.
RECURSIVE try_into_playback_servers(_, _, _)
try_into_playback_servers(projects, i, servers) ==
    IF i > Len(projects) THEN [ok |-> TRUE, err |-> "", val |-> servers]
    ELSE IF ~projects[i].playback
    THEN try_into_playback_servers(projects, i + 1, servers)
    ELSE IF ~load_all_in(projects[i].dir).ok
    THEN [ok |-> FALSE, err |-> load_all_in(projects[i].dir).err, val |-> <<>>]
    ELSE try_into_playback_servers(
             projects, i + 1,
             Append(servers, [name |-> projects[i].name,
                              archives |-> load_all_in(projects[i].dir).val]))

\* The configuration is turned into playback servers.
Configure ==
    /\ output = None
    /\ output' = [stage |-> "configured",
                  servers |-> try_into_playback_servers(input, 1, <<>>),
                  listening |-> {}]
    /\ UNCHANGED <<fs, sessionVars, recordVars, playVars, input>>

\* get_playback_servers on the servers of an Ok result: each is bound and
\* served.
Serve ==
    /\ output # None
    /\ output.stage = "configured"
    /\ output.servers.ok
    /\ output' = [output EXCEPT
                    !.stage = "serving",
                    !.listening = {output.servers.val[i].name :
                                      i \in DOMAIN output.servers.val}]
    /\ UNCHANGED <<fs, sessionVars, recordVars, playVars, input>>

\* The directories of the second project: at most one entry.
SecondDirs == {d \in RecordingDirs : Len(d.files) <= 1}

InitLoad ==
    /\ \E d1 \in RecordingDirs, d2 \in SecondDirs, p \in BOOLEAN :
          input = << [name |-> "one", playback |-> TRUE, dir |-> d1],
                     [name |-> "two", playback |-> p, dir |-> d2] >>
    /\ output = None
    /\ fs = <<>>
    /\ SessionUnused
    /\ RecordUnused
    /\ PlayUnused

NextLoad == Configure \/ Serve

SpecLoad == InitLoad /\ [][NextLoad]_vars

\* ------------------------------------------------ loading: the facts

\* Methods of archive entries: GET, get, POST, "G T" and the empty string.
FactMethods == <<GET, get_lower, POST, <<71, 32, 84>>, <<>>>>

\* URLs of archive entries: "http://up.test/a", "/b?q=1", "up.test",
\* "http://up.test", the empty string and "http:///x".
FactUrls ==
    << <<104, 116, 116, 112, 58, 47, 47, 117, 112, 46, 116, 101, 115, 116, 47, 97>>,
       <<47, 98, 63, 113, 61, 49>>,
       <<117, 112, 46, 116, 101, 115, 116>>,
       <<104, 116, 116, 112, 58, 47, 47, 117, 112, 46, 116, 101, 115, 116>>,
       <<>>,
       <<104, 116, 116, 112, 58, 47, 47, 47, 120>> >>

\* postData of archive entries: none; "hi" as text/plain; the base64 of
\* 0xFF 0xFE marked "base64"; "hi" marked "base64"; "hi" with the comment
\* "note"; an empty text.
FactPostData ==
    << None,
       Some([mime_type |-> TextPlain, text |-> BodyHi, comment |-> None]),
       Some([mime_type |-> <<>>, text |-> base64_encode(BodyBin),
             comment |-> Some(Base64Marker)]),
       Some([mime_type |-> TextPlain, text |-> BodyHi, comment |-> Some(Base64Marker)]),
       Some([mime_type |-> TextPlain, text |-> BodyHi,
             comment |-> Some(<<110, 111, 116, 101>>)]),
       Some([mime_type |-> TextPlain, text |-> <<>>, comment |-> None]) >>

\* HarLoader::get_facts on the request of an entry.
GetFacts ==
    /\ output = None
    /\ output' = [facts |-> get_facts(input)]
    /\ UNCHANGED <<fs, sessionVars, recordVars, playVars, input>>

InitFacts ==
    /\ \E m \in DOMAIN FactMethods, u \in DOMAIN FactUrls, d \in DOMAIN FactPostData :
          input = [method |-> FactMethods[m],
                   url |-> FactUrls[u],
                   http_version |-> string_for_http_version("HTTP_11"),
                   headers |-> <<[name |-> HostName, value |-> AuthorityUp,
                                  comment |-> None]>>,
                   post_data |-> FactPostData[d],
                   comment |-> None]
    /\ output = None
    /\ fs = <<>>
    /\ SessionUnused
    /\ RecordUnused
    /\ PlayUnused

NextFacts == GetFacts

SpecFacts == InitFacts /\ [][NextFacts]_vars

\* ------------------------------------------- playback: the response built

\* Stored statuses: 200, 404, 99, and 65736, which is 200 + 2^16.
StoredStatuses == {200, 404, 99, 65736}

\* Stored HTTP versions: "HTTP/1.1", "http/2" and "HTTP/3".
StoredVersions ==
    { <<72, 84, 84, 80, 47, 49, 46, 49>>,
      <<104, 116, 116, 112, 47, 50>>,
      <<72, 84, 84, 80, 47, 51>> }

\* Stored headers: set-cookie twice with different values, x-bin with the
\* base64 of 0xFF 0xFE, and Content-Type.
StoredHeaders ==
    << [name |-> <<115, 101, 116, 45, 99, 111, 111, 107, 105, 101>>, value |-> <<97>>, comment |-> None],
       [name |-> <<115, 101, 116, 45, 99, 111, 111, 107, 105, 101>>, value |-> <<98>>, comment |-> None],
       [name |-> XBinName, value |-> base64_encode(BodyBin),
        comment |-> Some(Base64Marker)],
       [name |-> <<67, 111, 110, 116, 101, 110, 116, 45, 84, 121, 112, 101>>, value |-> TextPlain, comment |-> None] >>

\* The stored header lists of at most MaxHeaders headers.
StoredHeaderLists ==
    UNION { { [i \in 1 .. n |-> StoredHeaders[ix[i]]] :
                ix \in [1 .. n -> DOMAIN StoredHeaders] } : n \in 0 .. MaxHeaders }

\* Stored contents: "hi" as text/html, 0xFF 0xFE in base64 without mime
\* type, and an empty body.
StoredContents ==
    {response_body_to_har(BodyHi, <<116, 101, 120, 116, 47, 104, 116, 109, 108>>),
     response_body_to_har(BodyBin, <<>>),
     response_body_to_har(<<>>, TextPlain)}

\* hyper_response on a matched transaction.
Rebuild ==
    /\ output = None
    /\ output' = [built |-> hyper_response(input)]
    /\ UNCHANGED <<fs, sessionVars, recordVars, playVars, input>>

InitRebuild ==
    /\ \E st \in StoredStatuses, v \in StoredVersions, h \in StoredHeaderLists,
          c \in StoredContents :
          input = [original_timing |-> 0,
                   facts |-> <<Method(GET), PathAndQuery(PathA)>>,
                   response |-> [status |-> st, http_version |-> v, headers |-> h,
                                 content |-> c]]
    /\ output = None
    /\ fs = <<>>
    /\ SessionUnused
    /\ RecordUnused
    /\ PlayUnused

NextRebuild == Rebuild

SpecRebuild == InitRebuild /\ [][NextRebuild]_vars

\* ------------------------------------------------ the query of a request

\* The queries of request URIs: none, and the strings of at most MaxQuery
\* of the bytes "a", "=" and "&".
Queries ==
    {None} \cup {Some(q) : q \in UNION {[1 .. n -> {97, 61, 38}] : n \in 0 .. MaxQuery}}

\* query_string_to_har(&head.uri.query()) in record_request.
QueryStringToHar ==
    /\ output = None
    /\ output' = [by |-> "store", list |-> query_string_to_har(input)]
    /\ UNCHANGED <<fs, sessionVars, recordVars, playVars, input>>

\* convert::Query::har.
QueryHar ==
    /\ output = None
    /\ output' = [by |-> "convert", list |-> query_string_to_har(input)]
    /\ UNCHANGED <<fs, sessionVars, recordVars, playVars, input>>

InitQuery ==
    /\ input \in Queries
    /\ output = None
    /\ fs = <<>>
    /\ SessionUnused
    /\ RecordUnused
    /\ PlayUnused

NextQuery == QueryStringToHar \/ QueryHar

SpecQuery == InitQuery /\ [][NextQuery]_vars

\* ------------------------------------------------ ports of the servers

\* std::u16::MAX.
U16_MAX == 65535

\* The port try_into_proxy_servers and try_into_playback_servers start at.
FirstPort == 8080

\* `x += 1` on a u16: [val, overflow].
add_one(x) == [val |-> (x + 1) % (U16_MAX + 1), overflow |-> x = U16_MAX]

\* The Vec `used` is kept as [run, pushed]: the ports FirstPort ..
\* FirstPort + run - 1, in this order, followed by the ports of pushed.

\* NextUnusedPort::new.
NextUnusedPort_new(start) == [current |-> start, used |-> [run |-> 0, pushed |-> <<>>]]

\* self.used.contains(&val).
contains(used, val) ==
    \/ val >= FirstPort /\ val < FirstPort + used.run
    \/ \E i \in DOMAIN used.pushed : used.pushed[i] = val

\* NextUnusedPort::observe: the allocator after the push.
observe(np, val) == [np EXCEPT !.used.pushed = Append(np.used.pushed, val)]

\* next that never gives up at the top of the range.
RECURSIVE next_Wrapping(_, _)
next_Wrapping(np, overflow_checks) ==
    IF contains(np.used, np.current)
    THEN IF add_one(np.current).overflow /\ overflow_checks
         THEN [panic |-> TRUE, ret |-> None, np |-> np]
         ELSE next_Wrapping([np EXCEPT !.current = add_one(np.current).val],
                            overflow_checks)
    ELSE IF add_one(np.current).overflow /\ overflow_checks
         THEN [panic |-> TRUE, ret |-> None, np |-> observe(np, np.current)]
         ELSE [panic |-> FALSE, ret |-> Some(np.current),
               np |-> [observe(np, np.current) EXCEPT
                          !.current = add_one(np.current).val]]

\* <NextUnusedPort as Iterator>::next: [panic, ret, np].  `+= 1` on a
\* current of u16::MAX panics in a build with overflow checks and wraps to 0
\* in one without.
RECURSIVE next(_, _)
next(np, overflow_checks) ==
    IF contains(np.used, np.current)
    THEN IF add_one(np.current).overflow /\ overflow_checks
         THEN [panic |-> TRUE, ret |-> None, np |-> np]
         ELSE IF add_one(np.current).val = U16_MAX
         THEN [panic |-> FALSE, ret |-> None,
               np |-> [np EXCEPT !.current = add_one(np.current).val]]
         ELSE next([np EXCEPT !.current = add_one(np.current).val], overflow_checks)
    ELSE IF add_one(np.current).overflow /\ overflow_checks
         THEN [panic |-> TRUE, ret |-> None, np |-> observe(np, np.current)]
         ELSE [panic |-> FALSE,
               ret |-> IF add_one(np.current).val = U16_MAX THEN None
                       ELSE Some(np.current),
               np |-> [observe(np, np.current) EXCEPT
                          !.current = add_one(np.current).val]]

\* Ports configured on projects.
ExplicitPorts == {FirstPort, FirstPort + 1, U16_MAX - 1}

\* How many projects without a port come before the projects followed here:
\* none, or so many that at most NearTop ports are left to yield.
LeadingProjects ==
    {0} \cup ((U16_MAX - 1 - FirstPort - NearTop) .. (U16_MAX - 1 - FirstPort))

\* The allocator after k projects without a port: it has yielded and
\* observed FirstPort .. FirstPort + k - 1.
after_leading(k) ==
    [current |-> FirstPort + k, used |-> [run |-> k, pushed |-> <<>>]]

\* The map closure on a project with `port` set: p.port.map(|p|
\* next_port.observe(p)).
ExplicitPort ==
    /\ output.stage = "mapping"
    /\ Len(output.ports) < MaxProjects
    /\ \E p \in ExplicitPorts :
          output' = [output EXCEPT
                        !.next_port = observe(output.next_port, p),
                        !.ports = Append(output.ports, [port |-> p, yielded |-> FALSE])]
    /\ UNCHANGED <<fs, sessionVars, recordVars, playVars, input>>

\* The map closure on a project without a port:
\* next_port.next().expect("Ran out of ports ...").
UnusedPort ==
    /\ output.stage = "mapping"
    /\ Len(output.ports) < MaxProjects
    /\ LET n == next(output.next_port, input.overflow_checks)
       IN  output' = IF n.panic \/ IsNone(n.ret)
                     THEN [output EXCEPT !.next_port = n.np, !.stage = "panicked",
                                         !.out_of_ports = ~n.panic]
                     ELSE [output EXCEPT
                              !.next_port = n.np,
                              !.last_yielded = n.ret,
                              !.ports = Append(output.ports,
                                               [port |-> Unwrap(n.ret), yielded |-> TRUE])]
    /\ UNCHANGED <<fs, sessionVars, recordVars, playVars, input>>

\* collect() at the end of the project list.
Collect ==
    /\ output.stage = "mapping"
    /\ output' = [output EXCEPT !.stage = "collected"]
    /\ UNCHANGED <<fs, sessionVars, recordVars, playVars, input>>

InitPorts ==
    /\ \E k \in LeadingProjects, c \in BOOLEAN :
          /\ input = [leading |-> k, overflow_checks |-> c]
          /\ output = [stage |-> "mapping",
                       next_port |-> IF k = 0 THEN NextUnusedPort_new(FirstPort)
                                     ELSE after_leading(k),
                       last_yielded |-> IF k = 0 THEN None ELSE Some(FirstPort + k - 1),
                       ports |-> <<>>,
                       out_of_ports |-> FALSE]
    /\ fs = <<>>
    /\ SessionUnused
    /\ RecordUnused
    /\ PlayUnused

NextPorts == ExplicitPort \/ UnusedPort \/ Collect

SpecPorts == InitPorts /\ [][NextPorts]_vars

\* ---------------------------------------------------- claims: HarSession

\* The fingerprint that record_request wrote into a request's comment.
fingerprint_of(request) == Unwrap(request.comment).hex

\* C3: commit on an incomplete session fails with the error for what is
\* missing (MissingBoth, MissingRequest, MissingResponse, then MissingStart),
\* and succeeds exactly when request, response and start timestamp are all
\* present.
C3_CommitErrorForWhatIsMissing ==
    [][last'.op = "commit" =>
        /\ (IsNone(hs.request) /\ IsNone(hs.response))
              => (~last'.ok /\ last'.err = "MissingBoth")
        /\ (IsNone(hs.request) /\ IsSome(hs.response))
              => (~last'.ok /\ last'.err = "MissingRequest")
        /\ (IsSome(hs.request) /\ IsNone(hs.response))
              => (~last'.ok /\ last'.err = "MissingResponse")
        /\ (IsSome(hs.request) /\ IsSome(hs.response) /\ IsNone(hs.start_date))
              => (~last'.ok /\ last'.err = "MissingStart")
        /\ last'.ok <=> (IsSome(hs.request) /\ IsSome(hs.response)
                         /\ IsSome(hs.start_date))]_vars

\* A started session holding only a response was committed and refused.
C3_Witness ==
    /\ last.op = "commit"
    /\ last.err = "MissingRequest"
    /\ IsSome(hs.start_date)
    /\ IsSome(hs.response)
    /\ IsNone(hs.request)

\* C4: a successful commit appends exactly one entry, holding the pending
\* request and response, to the end of the log, clears start timestamp,
\* request, response and fingerprint, returns the fingerprint recorded with
\* the committed request, and leaves a session on which commit fails with
\* MissingBoth.
C4_CommitAppendsAndClears ==
    [][(last'.op = "commit" /\ last'.ok) =>
        /\ Len(hs'.entries) = Len(hs.entries) + 1
        /\ SubSeq(hs'.entries, 1, Len(hs.entries)) = hs.entries
        /\ hs'.entries[Len(hs'.entries)].request = Unwrap(hs.request)
        /\ hs'.entries[Len(hs'.entries)].response = Unwrap(hs.response)
        /\ IsNone(hs'.start_date)
        /\ IsNone(hs'.request)
        /\ IsNone(hs'.response)
        /\ IsNone(hs'.request_hash)
        /\ last'.ret = Some(fingerprint_of(Unwrap(hs.request)))
        /\ \A t \in SessionClock :
              ~commit(hs', t).ok /\ commit(hs', t).err = "MissingBoth"]_vars

\* A second commit succeeded and put a different transaction behind the first.
C4_Witness ==
    /\ last.op = "commit"
    /\ last.ok
    /\ Len(hs.entries) = 2
    /\ hs.entries[1].request # hs.entries[2].request
    /\ last.ret = Some(fingerprint_of(hs.entries[2].request))

\* C5: write_to_dir on a session with no committed entry fails with
\* EmptySession and leaves the directory as it was, whatever is pending.
C5_WriteEmptySessionFails ==
    [][(last'.op = "write_to_dir" /\ hs.entries = <<>>) =>
        /\ ~last'.ok
        /\ last'.err = "EmptySession"
        /\ fs' = fs]_vars

\* write_to_dir was refused on a started session with request and response
\* pending and nothing committed.
C5_Witness ==
    /\ last.op = "write_to_dir"
    /\ last.err = "EmptySession"
    /\ hs.entries = <<>>
    /\ IsSome(hs.request)
    /\ IsSome(hs.response)
    /\ IsSome(hs.start_date)
    /\ DOMAIN fs = {}


\* ------------------------------------------------ claims: record pipeline

\* The calls a future has made on its HarSession, start_session left out.
RecordingOps(h) ==
    SelectSeq([i \in DOMAIN h.ops |-> h.ops[i].op], LAMBDA o : o # "start_session")

IsPrefix(a, b) == Len(a) <= Len(b) /\ SubSeq(b, 1, Len(a)) = a

\* The requests whose future holds a HarSession.
Recording == {r \in Requests : tx[r].slot # 0 /\ IsSome(hars[tx[r].slot])}

\* C1: under every interleaving of the requests in flight, the calls on a
\* transaction's HarSession are record_request, record_response, commit,
\* write_to_dir in that order, every one made by the request that owns the
\* session, and no two requests hold the same session; a transaction whose
\* file is being written has gone through all four.
C1_SessionOpsInOrder ==
    /\ \A r \in Recording :
        LET h == Unwrap(hars[tx[r].slot])
        IN  /\ IsPrefix(RecordingOps(h),
                        <<"record_request", "record_response", "commit", "write_to_dir">>)
            /\ \A i \in DOMAIN h.ops : h.ops[i].by = r
            /\ tx[r].pc = "writing" => Len(RecordingOps(h)) = 4
    /\ \A r, q \in Recording : r # q => tx[r].slot # tx[q].slot

\* One request's file is being written while another request, which arrived
\* later, has had only its request recorded.
C1_Witness ==
    \E r, q \in Recording :
        /\ r # q
        /\ tx[r].pc = "writing"
        /\ Len(RecordingOps(Unwrap(hars[tx[r].slot]))) = 4
        /\ tx[q].pc = "upstream"
        /\ RecordingOps(Unwrap(hars[tx[q].slot])) = <<"record_request">>

\* The session of request r has a committed entry before or after the step.
CommitDone(r) ==
    \/ tx[r].pc = "writing" /\ HasCommitted(Unwrap(hars[tx[r].slot]))
    \/ tx'[r].pc = "writing" /\ HasCommitted(Unwrap(hars'[tx'[r].slot]))

\* C2: a step of a request changes the archive directory only when that
\* request's commit has succeeded; a request that fails, panics or is dropped
\* before its file is created leaves the directory as it was.
C2_NothingPersistedBeforeCommit ==
    [][\A r \in Requests : tx'[r] # tx[r] =>
        /\ (fs' # fs \/ fslog' # fslog) => CommitDone(r)
        /\ (tx'[r].pc \in {"failed", "dropped", "panicked"} /\ tx[r].pc # "writing")
              => (fs' = fs /\ fslog' = fslog)
        /\ \A e \in fslog' : e.committed]_vars

\* One request's archive file is on disk, and another request was dropped
\* after its request had been recorded without any file made for it.
C2_Witness ==
    \E r, q \in Requests :
        /\ tx[r].pc = "responded"
        /\ \E e \in fslog : e.by = r /\ e.name \in DOMAIN fs /\ fs[e.name] # Truncated
        /\ tx[q].pc = "dropped"
        /\ tx[q].slot # 0
        /\ \A e \in fslog : e.by # q

Empty == [started |-> FALSE, request |-> FALSE, response |-> FALSE, entries |-> 0]
HasRequest == [started |-> FALSE, request |-> TRUE, response |-> FALSE, entries |-> 0]
StartedWithRequest == [started |-> TRUE, request |-> TRUE, response |-> FALSE, entries |-> 0]
HasBoth == [started |-> TRUE, request |-> TRUE, response |-> TRUE, entries |-> 0]
Committed == [started |-> FALSE, request |-> FALSE, response |-> FALSE, entries |-> 1]

\* The calls of one recorded transaction with the session each one finds.
PipelineOrder ==
    << [op |-> "record_request", pre |-> Empty],
       [op |-> "start_session", pre |-> HasRequest],
       [op |-> "record_response", pre |-> StartedWithRequest],
       [op |-> "commit", pre |-> HasBoth],
       [op |-> "write_to_dir", pre |-> Committed] >>

\* C6 as stated: record_request always runs on a session that is already
\* started.
C6_RecordRequestOnStarted ==
    \A r \in Recording :
        LET h == Unwrap(hars[tx[r].slot])
        IN  \A i \in DOMAIN h.ops : h.ops[i].op = "record_request" => h.ops[i].pre.started

\* C6, amended: the record pipeline applies record_request to the fresh
\* session and then start_session, both before the request goes upstream;
\* record_response then finds a started session holding the request, commit
\* finds request, response and start timestamp, and write_to_dir finds the
\* committed entry with the transients cleared.
C6_RequestThenStart ==
    \A r \in Recording :
        LET h == Unwrap(hars[tx[r].slot])
            calls == [i \in DOMAIN h.ops |-> [op |-> h.ops[i].op, pre |-> h.ops[i].pre]]
        IN  /\ IsPrefix(calls, PipelineOrder)
            /\ tx[r].pc \in {"upstream", "resp_body"} =>
                  (Len(calls) = 2 /\ Lifecycle(h.s) = StartedWithRequest)
            /\ tx[r].pc = "writing" =>
                  (Len(calls) = 5 /\ Lifecycle(h.s) = Committed)

\* A transaction went through all five calls and its file is being written.
C6_Witness ==
    \E r \in Recording :
        LET h == Unwrap(hars[tx[r].slot])
        IN  /\ tx[r].pc = "writing"
            /\ Len(h.ops) = 5
            /\ h.ops[1].op = "record_request"
            /\ ~h.ops[1].pre.started
            /\ h.ops[2].op = "start_session"
            /\ h.ops[5].op = "write_to_dir"


\* ------------------------------------------- claims: matching, playback

\* C7: for every loaded transaction T and every facts list Q, matches(T, Q)
\* is true exactly when every fact of Q whose variant occurs among T's facts
\* has the payload of T's fact of that variant; facts of Q of other variants
\* are ignored, and the empty Q matches every transaction.
C7_MatchesIffSharedVariantsEqual ==
    IsSome(verdict) =>
        \A i \in DOMAIN transactions :
            /\ Unwrap(verdict)[i] <=>
                  \A k \in DOMAIN query : \A j \in DOMAIN transactions[i].facts :
                      transactions[i].facts[j].variant = query[k].variant
                          => transactions[i].facts[j].value = query[k].value
            /\ query = <<>> => Unwrap(verdict)[i]

\* matches accepted a query holding the transaction's method and a Body fact,
\* for a transaction that has no Body fact, and refused it for another one.
C7_Witness ==
    /\ IsSome(verdict)
    /\ \E i, n \in DOMAIN transactions :
        /\ Unwrap(verdict)[i]
        /\ ~Unwrap(verdict)[n]
        /\ \E k \in DOMAIN query : query[k].variant = "Body"
        /\ \A j \in DOMAIN transactions[i].facts : transactions[i].facts[j].variant # "Body"
        /\ \E k \in DOMAIN query : fact_eq(query[k], transactions[i].facts[1])

\* The facts find_match derives from the request of future r.
facts_of_request(r) == hyper_request_to_facts(Unwrap(px[r].parts), px[r].body)

\* The position of the transaction found for request r; 0 when none was.
found(r) == Unwrap(px[r].from)

\* C8: the transaction selected for a request matches the request's facts, no
\* transaction at an earlier position of the list does, and the reply is the
\* selected transaction's response, not that of a later duplicate.
C8_FirstMatchWins ==
    \A r \in Requests :
        (IsSome(px[r].from) /\ found(r) # 0) =>
            /\ found(r) \in DOMAIN transactions
            /\ matches(transactions[found(r)], facts_of_request(r))
            /\ \A j \in 1 .. (found(r) - 1) :
                  ~matches(transactions[j], facts_of_request(r))
            /\ px[r].pc = "replied" =>
                  px[r].reply = Some(hyper_response(transactions[found(r)]).val)

\* The first of two matching transactions with different responses was
\* served.
C8_Witness ==
    \E r \in Requests :
        /\ px[r].pc = "replied"
        /\ IsSome(px[r].from)
        /\ found(r) = 1
        /\ Len(transactions) >= 2
        /\ matches(transactions[2], facts_of_request(r))
        /\ transactions[2].response # transactions[1].response
        /\ px[r].reply = Some(hyper_response(transactions[1]).val)

\* C9: a request whose body was read is answered with the synthesized 404
\* "Not Found" without headers exactly when no loaded transaction matches it,
\* which is always so with an empty list; when a transaction matches, the
\* reply is built from a stored response.
C9_NotFoundIffNoMatch ==
    \A r \in Requests :
        IsSome(px[r].from) =>
            /\ found(r) = 0 <=>
                  \A i \in DOMAIN transactions :
                      ~matches(transactions[i], facts_of_request(r))
            /\ found(r) = 0 =>
                  /\ px[r].pc = "replied"
                  /\ px[r].reply =
                        Some([status |-> 404, version |-> "HTTP_11", headers |-> <<>>,
                              body |-> NotFoundBody])
            /\ (found(r) # 0 /\ px[r].pc = "replied") =>
                  \E i \in DOMAIN transactions :
                      /\ matches(transactions[i], facts_of_request(r))
                      /\ px[r].reply = Some(hyper_response(transactions[i]).val)
            /\ transactions = <<>> => found(r) = 0

\* With transactions loaded, one request got the 404 and another one a stored
\* response.
C9_Witness ==
    \E r, q \in Requests :
        /\ transactions # <<>>
        /\ px[r].pc = "replied"
        /\ found(r) = 0
        /\ px[r].reply = Some(not_found)
        /\ px[q].pc = "replied"
        /\ found(q) # 0
        /\ Unwrap(px[q].reply).status # 404

\* C10: a transaction loaded from an entry without postData matches every
\* request that has its method and its path and query, whatever the request's
\* body, Content-Type and other headers.
C10_BodylessMatchesAnyBody ==
    \A r \in Requests :
        px[r].pc # "idle" =>
            \A i \in DOMAIN transactions :
                ( /\ IsNone(entries_of(fs, 1)[i].request.post_data)
                  /\ transactions[i].facts[1] = Method(Unwrap(px[r].parts).method)
                  /\ transactions[i].facts[2] =
                        PathAndQuery(path_and_query_as_str(Unwrap(px[r].parts).uri)) )
                => matches(transactions[i], facts_of_request(r))

\* A request with a body, a Content-Type and another header was served a
\* transaction recorded without body.
C10_Witness ==
    \E r \in Requests :
        /\ px[r].pc = "replied"
        /\ IsSome(px[r].from)
        /\ found(r) # 0
        /\ IsNone(entries_of(fs, 1)[found(r)].request.post_data)
        /\ Len(transactions[found(r)].facts) = 2
        /\ px[r].body # <<>>
        /\ Len(Unwrap(px[r].parts).headers) = 2


\* The position of the Body fact of transaction i; 0 when it has none.
body_fact(i) == find_fact(transactions[i].facts, Body(<<>>, <<>>), 1)

\* Request r has the body bytes and the Content-Type of transaction i's Body
\* fact.
SameBody(r, i) ==
    /\ px[r].body = transactions[i].facts[body_fact(i)].value.data
    /\ mime_type_of(Unwrap(px[r].parts).headers)
          = transactions[i].facts[body_fact(i)].value.content_type

\* Request r has the method and the path and query of transaction i.
SameTarget(r, i) ==
    /\ transactions[i].facts[1] = Method(Unwrap(px[r].parts).method)
    /\ transactions[i].facts[2] =
          PathAndQuery(path_and_query_as_str(Unwrap(px[r].parts).uri))

\* C11 as stated: a transaction holding a Body fact is selected only for
\* requests with its body bytes and its Content-Type, never for a request with
\* an empty body.
C11_BodyFactOnlyIdentical ==
    \A r \in Requests :
        (IsSome(px[r].from) /\ found(r) # 0 /\ body_fact(found(r)) # 0)
            => SameBody(r, found(r))

\* C11, amended: a transaction holding a Body fact matches a request with its
\* method and path and query exactly when the request's body is empty or has
\* the stored bytes and the stored Content-Type; it is selected for no other
\* request.
C11_BodyFactIdenticalOrEmpty ==
    \A r \in Requests :
        /\ px[r].pc # "idle" =>
              \A i \in DOMAIN transactions :
                  (body_fact(i) # 0 /\ SameTarget(r, i)) =>
                      (matches(transactions[i], facts_of_request(r))
                          <=> (px[r].body = <<>> \/ SameBody(r, i)))
        /\ (IsSome(px[r].from) /\ found(r) # 0 /\ body_fact(found(r)) # 0)
              => (px[r].body = <<>> \/ SameBody(r, found(r)))

\* A request with an empty body was given a transaction that holds a Body
\* fact, while a request with other body bytes got the 404.
C11_Witness ==
    \E r, q \in Requests :
        /\ IsSome(px[r].from)
        /\ found(r) # 0
        /\ body_fact(found(r)) # 0
        /\ px[r].body = <<>>
        /\ IsSome(px[q].from)
        /\ found(q) = 0
        /\ px[q].body # <<>>
        /\ \E i \in DOMAIN transactions : body_fact(i) # 0 /\ SameTarget(q, i)


\* ------------------------------------------------- claims: fingerprint

\* The four fingerprint inputs of an inbound request.
fingerprint_inputs(a) ==
    [method |-> a.inbound.head.method,
     path_and_query |-> path_and_query(a.inbound.head.uri),
     http_version |-> string_for_http_version(a.inbound.head.version),
     body |-> a.inbound.body]

\* C12: two recordings with the same method, path and query, HTTP version and
\* body get the same fingerprint and the same fp8 part of the file name,
\* whatever their headers, their server's upstream host and scheme, and their
\* times.
C12_FingerprintIgnoresHostHeadersTime ==
    IsSome(output) =>
        (fingerprint_inputs(input[1]) = fingerprint_inputs(input[2]) =>
            /\ Unwrap(output)[1].fingerprint = Unwrap(output)[2].fingerprint
            /\ Unwrap(Unwrap(output)[1].file_name).fp8
                  = Unwrap(Unwrap(output)[2].file_name).fp8)

\* The number of fingerprint inputs in which two recordings differ.
inputs_changed(a, b) ==
    Cardinality({f \in {"method", "path_and_query", "http_version", "body"} :
                    fingerprint_inputs(a)[f] # fingerprint_inputs(b)[f]})

\* C13: the fingerprint of a recording is the digest of the request's method,
\* path and query, HTTP version string and body bytes, concatenated in that
\* order without separators; two recordings that differ in exactly one of the
\* four have different fingerprints.
C13_FingerprintIsDigestOfFourInputs ==
    IsSome(output) =>
        /\ \A k \in {1, 2} :
              Unwrap(output)[k].fingerprint
                 = Some(sha256_hex(fingerprint_inputs(input[k]).method,
                                   fingerprint_inputs(input[k]).path_and_query,
                                   fingerprint_inputs(input[k]).http_version,
                                   fingerprint_inputs(input[k]).body))
        /\ (inputs_changed(input[1], input[2]) = 1 =>
               Unwrap(output)[1].fingerprint # Unwrap(output)[2].fingerprint)

\* --------------------------------------------------- claims: file names

\* C14: every file the record server writes is named
\* <normalized_base>.<fp8>.json, where normalized_base is normalize_path of
\* "<METHOD>.<path_without_query>" of the request and fp8 is the first 8 hex
\* characters of the fingerprint commit returned for the transaction the file
\* holds.
C14_FileNamedByBaseAndFingerprint ==
    /\ \A e \in fslog :
          /\ e.name.base = normalize_path(tx[e.by].method \o <<46>>
                                             \o tx[e.by].path_without_query)
          /\ IsSome(tx[e.by].hash)
          /\ e.name.fp8 = [fp8_of |-> tx[e.by].hash]
          /\ e.name \in DOMAIN fs
          /\ \A i \in DOMAIN fs[e.name].entries :
                fingerprint_of(fs[e.name].entries[i].request) = Unwrap(tx[e.by].hash)
    /\ \A n \in DOMAIN fs : \E e \in fslog : e.name = n

\* Both requests, a GET and a POST with different paths, have been answered
\* and two files are in the archive directory.
C14_Witness ==
    /\ \A r \in Requests : tx[r].pc = "responded" /\ IsSome(tx[r].file)
    /\ \E r, q \in Requests : tx[r].method = GET /\ tx[q].method = POST
    /\ Cardinality(DOMAIN fs) = 2
    /\ \A n \in DOMAIN fs : fs[n] # Truncated


\* ---------------------------------------------- claims: normalize_path

\* The characters of a UTF-8 string, each as its bytes.
RECURSIVE characters(_)
characters(s) ==
    IF s = <<>> THEN <<>>
    ELSE LET w == IF s[1] < 128 THEN 1 ELSE IF s[1] < 224 THEN 2
                  ELSE IF s[1] < 240 THEN 3 ELSE 4
         IN  <<SubSeq(s, 1, w)>> \o characters(SubSeq(s, w + 1, Len(s)))

\* A word character: a letter, a digit or the underscore of [[:word:]].
IsWordChar(ch) ==
    /\ Len(ch) = 1
    /\ \/ ch[1] \in 48..57
       \/ ch[1] \in 65..90
       \/ ch[1] \in 97..122
       \/ ch[1] = 95

\* The bytes of a sequence of characters.
RECURSIVE flatten(_)
flatten(cs) == IF cs = <<>> THEN <<>> ELSE Head(cs) \o flatten(Tail(cs))

\* Every character that is neither a word character nor "." replaced by "-".
replaced(cs) ==
    [i \in DOMAIN cs |-> IF IsWordChar(cs[i]) \/ cs[i] = <<46>> THEN cs[i] ELSE <<45>>]

TestLongerNormalized ==
    <<116, 104, 105, 115, 45, 105, 115, 45, 108, 111, 110, 103, 101, 114,
      45, 116, 104, 97, 110, 45>>

\* C15: normalize_path(s) is s with every character that is neither a word
\* character nor "." replaced by "-", cut to its first 20 characters when
\* that is longer than 20; the result has at most 20 characters, all of them
\* word characters, "." or "-"; "this is longer than 20 characters" gives
\* "this-is-longer-than-".
C15_NormalizePathReplacesAndCuts ==
    IsSome(output) =>
        LET cs == replaced(characters(input))
            result == characters(Unwrap(output))
        IN  /\ Unwrap(output) = flatten(IF Len(cs) > 20 THEN SubSeq(cs, 1, 20) ELSE cs)
            /\ Len(result) <= 20
            /\ \A i \in DOMAIN result :
                  IsWordChar(result[i]) \/ result[i] \in {<<46>>, <<45>>}
            /\ input = TestLonger => Unwrap(output) = TestLongerNormalized

\* A name of more than 20 characters, with a "/" and a two-byte character among
\* its first 20, has been normalized to 20 characters.
C15_Witness ==
    /\ IsSome(output)
    /\ Len(characters(input)) > 20
    /\ \E i, j \in 1..20 :
          /\ characters(input)[i] = <<47>>
          /\ Len(characters(input)[j]) = 2
    /\ Len(Unwrap(output)) = 20


\* ------------------------------------------- claims: concurrent writes

\* The writer whose write to the file of writer w ended last.
later_writer(w) ==
    LET same == {k \in DOMAIN output.wrote :
                    input[output.wrote[k]].file_name = input[w].file_name}
    IN  output.wrote[CHOOSE k \in same : \A j \in same : j <= k]

\* C16: concurrent write_to_dir calls target the same file only if their
\* transactions' fingerprints are equal, and once the writes to a file have
\* ended the file holds the complete document of the later write.
C16_LaterWriteLeftComplete ==
    /\ \A v, w \in Writers :
          input[v].file_name = input[w].file_name
             => input[v].fingerprint = input[w].fingerprint
    /\ (\A w \in Writers : output.pc[w] = "written") =>
          \A w \in Writers :
             fs[Unwrap(input[w].file_name)] = input[later_writer(w)].document


\* ------------------------------------------- claims: the shared list

\* C17: the shared transaction list of a running playback server is the
\* list loaded at startup and no step of any request changes it; the answer
\* a request gets is the one find_match gives on that list for the request
\* alone, whatever the other requests have done.
C17_TransactionsAsLoaded ==
    /\ transactions = load_all(fs, 1).val
    /\ [][/\ transactions' = transactions
          /\ \A r \in Requests :
                px'[r].from # px[r].from =>
                   Unwrap(px'[r].from)
                      = find_match(transactions, Unwrap(px[r].parts), px[r].body)]_vars

\* Of two requests handled at once, one has been answered from a stored
\* transaction and the other with the 404, and a stored transaction is left.
C17_Witness ==
    /\ transactions # <<>>
    /\ \E r, q \in Requests :
          /\ px[r].pc = "replied" /\ Unwrap(px[r].from) > 0
          /\ px[q].pc = "replied" /\ Unwrap(px[q].from) = 0


\* ------------------------------------------- claims: ignored statuses

\* The upstream response of request r as the client is to receive it: same
\* status and body, hop-by-hop headers removed.
passed_on(r) ==
    Some([status |-> Unwrap(tx[r].upstream)[1].status,
          headers |-> remove_hop_headers(Unwrap(tx[r].upstream)[1].headers),
          body |-> Unwrap(tx[r].upstream)[2]])

\* C18: when the upstream status is in ignored_status_codes the body closure
\* makes no commit and no write_to_dir, no file is written and the client gets
\* the upstream response with hop-by-hop headers removed; for any other status
\* the client is answered only after the transaction is committed and written.
C18_IgnoredStatusNotArchived ==
    [][\A r \in Requests :
        (tx[r].pc \in {"resp_body", "writing"} /\ tx'[r] # tx[r]) =>
           LET ignored == Unwrap(tx[r].upstream)[1].status \in ignored_status_codes
           IN  /\ ignored =>
                     /\ tx[r].pc = "resp_body"
                     /\ tx'[r].pc # "writing"
                     /\ fs' = fs /\ fslog' = fslog
                     /\ tx'[r].pc = "responded" => tx'[r].reply = passed_on(r)
               /\ (~ignored /\ tx'[r].pc = "responded") =>
                     /\ tx[r].pc = "writing"
                     /\ HasCommitted(Unwrap(hars[tx[r].slot]))
                     /\ fs'[Unwrap(tx[r].file)]
                           = write_from_start(fs[Unwrap(tx[r].file)],
                                              har_document(Unwrap(hars[tx[r].slot]).s))
                     /\ tx'[r].reply = passed_on(r)]_vars

\* One client got the 429 of the upstream without its connection header and
\* no file was made for it; another got a 200 and its file is written.
C18_Witness ==
    \E r, q \in Requests :
        /\ tx[r].pc = "responded"
        /\ Unwrap(tx[r].reply).status = 429
        /\ Unwrap(tx[r].upstream)[1].headers # <<>>
        /\ Unwrap(tx[r].reply).headers = <<>>
        /\ \A e \in fslog : e.by # r
        /\ tx[q].pc = "responded"
        /\ Unwrap(tx[q].reply).status = 200
        /\ \E e \in fslog : e.by = q /\ fs[e.name] # Truncated


\* ------------------------------------------------- claims: round trip

\* C19: for a request recorded with a status that is not ignored, the file
\* loads to a transaction that matches the facts the playback server derives
\* from the same inbound request, and the response rebuilt from it has the
\* upstream response's status, headers and body.
C19_RecordThenReplay ==
    (output # None /\ output.stage = "replayed") =>
        /\ output.loaded
        /\ output.answer.from = 1
        /\ output.answer.response.ok
        /\ output.answer.response.val.status = input.response.head.status
        /\ output.answer.response.val.headers = input.response.head.headers
        /\ output.answer.response.val.body = input.response.body


\* ------------------------------------------------- claims: failures

\* The next request of the record server not yet taken in.
next_idle(r) == tx[r].pc = "idle" /\ \A q \in Requests : q < r => tx[q].pc # "idle"

\* C20: a request whose handling failed (upstream error, body-read error,
\* target-URI error, commit or write error) is answered with a 5xx response,
\* and the server still takes in the next request.
C20_FailureAnsweredWith5xx ==
    \A r \in Requests :
        tx[r].pc = "failed" =>
            /\ IsSome(tx[r].reply)
            /\ Unwrap(tx[r].reply).status \in 500..599
            /\ \A q \in Requests : next_idle(q) => ENABLED Arrive(q)


\* --------------------------------------------------- claims: the delay

\* The wait the configuration asks for: 0 for None, millis for Static, and
\* max(0, entry.time) for Original.
wanted_delay ==
    CASE input.delay.method = "None" -> 0
      [] input.delay.method = "Static" -> input.delay.millis
      [] input.delay.method = "Original" ->
            IF input.entry.time > 0 THEN input.entry.time ELSE 0

\* C21: the response of a matched playback request that arrived at T0 is
\* emitted no earlier than T0 + d, where d is 0 for None, millis for Static
\* and max(0, entry.time) milliseconds for Original.
C21_ResponseNotBeforeDelay ==
    output.pc = "replied" => output.emitted >= output.t0 + wanted_delay

\* A request that arrived after time 0 was answered exactly MaxMillis later,
\* the time of its entry, under Original.
C21_Witness ==
    /\ output.pc = "replied"
    /\ input.delay.method = "Original"
    /\ input.entry.time = MaxMillis
    /\ output.t0 > 0
    /\ output.emitted = output.t0 + MaxMillis


\* ------------------------------------------------ claims: forwarding

\* connection, keep-alive, proxy-authenticate, proxy-authorization, te,
\* trailers, transfer-encoding, upgrade.
HopNames ==
    { <<99, 111, 110, 110, 101, 99, 116, 105, 111, 110>>,
      <<107, 101, 101, 112, 45, 97, 108, 105, 118, 101>>,
      <<112, 114, 111, 120, 121, 45, 97, 117, 116, 104, 101, 110, 116, 105, 99, 97, 116, 101>>,
      <<112, 114, 111, 120, 121, 45, 97, 117, 116, 104, 111, 114, 105, 122, 97, 116, 105, 111, 110>>,
      <<116, 101>>,
      <<116, 114, 97, 105, 108, 101, 114, 115>>,
      <<116, 114, 97, 110, 115, 102, 101, 114, 45, 101, 110, 99, 111, 100, 105, 110, 103>>,
      <<117, 112, 103, 114, 97, 100, 101>> }

\* The names of a header list, and the list without the headers of some names.
names_of(m) == {m[i].name : i \in DOMAIN m}
without(m, names) == SelectSeq(m, LAMBDA h : h.name \notin names)

\* Archived headers as (name, value) pairs.
pairs_of(m) == [i \in DOMAIN m |-> [name |-> m[i].name, value |-> m[i].value]]

hosts_of(m) == SelectSeq(m, LAMBDA h : h.name = HostName)

\* C23: the request forwarded upstream has the scheme and the authority of
\* the configured upstream, the path and the query of the inbound request,
\* and one Host header, whose value is the upstream authority; with an
\* upstream that has no authority the request fails with AuthorityError, and
\* nothing is forwarded and nothing recorded.
C23_TargetOfUpstreamPathOfRequest ==
    output # None =>
        /\ output.forwarded.ok =>
              /\ IsSome(input.upstream.scheme)
                    => output.forwarded.head.uri.scheme = input.upstream.scheme
              /\ output.forwarded.head.uri.authority = input.upstream.authority
              /\ output.forwarded.head.uri.path = input.inbound.head.uri.path
              /\ output.forwarded.head.uri.query = input.inbound.head.uri.query
              /\ hosts_of(output.forwarded.head.headers)
                    = <<[name |-> HostName, value |-> Unwrap(input.upstream.authority)]>>
        /\ IsNone(input.upstream.authority) =>
              /\ ~output.forwarded.ok
              /\ output.forwarded.err = "AuthorityError"
              /\ output.stage = "forwarded"
              /\ ~ENABLED Answer

\* /b?q=1 with two Host headers went to https://other.test/
\* and was answered.
C23_Witness ==
    /\ output # None
    /\ output.stage = "answered"
    /\ input.upstream = Upstreams[2]
    /\ input.inbound.head.uri.query = Some(QueryQ)
    /\ Len(hosts_of(input.inbound.head.headers)) = 2
    /\ format_uri(output.forwarded.head.uri)
          = SchemeHttps \o <<58, 47, 47>> \o AuthorityOther \o PathB \o <<63>> \o QueryQ


\* ------------------------------------------ claims: the returned response

\* C24: the response the record server returns to the client has the status
\* of the upstream response and exactly the bytes of its body, whether the
\* transaction was archived or not, and whatever form the archive gave them.
C24_ReplyIsUpstreamStatusAndBody ==
    \A r \in Requests :
        tx[r].pc = "responded" =>
            /\ IsSome(tx[r].reply)
            /\ Unwrap(tx[r].reply).status = Unwrap(tx[r].upstream)[1].status
            /\ Unwrap(tx[r].reply).body = Unwrap(tx[r].upstream)[2]

\* One request was answered with an ignored status and nothing archived, the
\* other with a body that is not UTF-8, archived as base64 text and returned
\* as the bytes it was.
C24_Witness ==
    \E r, q \in Requests :
        /\ tx[r].pc = "responded" /\ IsNone(tx[r].file)
        /\ tx[q].pc = "responded" /\ IsSome(tx[q].file)
        /\ Unwrap(tx[q].reply).body = BodyBin
        /\ fs[Unwrap(tx[q].file)] # Truncated
        /\ fs[Unwrap(tx[q].file)].entries[1].response.content.encoding
              = Some(Base64Marker)
        /\ fs[Unwrap(tx[q].file)].entries[1].response.content.text
              = Some(base64_encode(BodyBin))


\* ------------------------------------------------- claims: one entry a file

\* The document a file holds the start of, if one was written into it.
document_in(f) == IF "written" \in DOMAIN f THEN f.written ELSE f

\* How often op was called on a session.
Calls(h, op) == Cardinality({i \in DOMAIN h.ops : h.ops[i].op = op})

\* C25: every document the record server has written into a file holds
\* exactly one entry; the HarSession of a request is new when the request
\* gets it, no other request calls it, and it is committed at most once,
\* before its one write_to_dir.
C25_OneEntryPerFile ==
    /\ \A n \in DOMAIN fs :
          fs[n] # Truncated => Len(document_in(fs[n]).entries) = 1
    /\ \A r \in Recording :
        LET h == Unwrap(hars[tx[r].slot])
        IN  /\ h.ops[1].pre.entries = 0
            /\ ~h.ops[1].pre.request
            /\ \A i \in DOMAIN h.ops : h.ops[i].by = r
            /\ Calls(h, "commit") <= 1
            /\ Calls(h, "write_to_dir") <= 1
            /\ Len(h.s.entries) <= Calls(h, "commit")
            /\ \A i \in DOMAIN h.ops :
                  h.ops[i].op = "write_to_dir" =>
                      \E j \in 1 .. i - 1 : h.ops[j].op = "commit"

\* Two requests with the same fingerprint were answered, each after writing
\* the one file of that name, and the file holds one entry.
C25_Witness ==
    /\ \A r \in Requests : tx[r].pc = "responded" /\ IsSome(tx[r].file)
    /\ Cardinality(DOMAIN fs) = 1
    /\ \A n \in DOMAIN fs : fs[n] # Truncated /\ Len(document_in(fs[n]).entries) = 1


\* ----------------------------------------------------- claims: the codec

\* The text and the marker of an archive form.
text_in(o) ==
    CASE o.of = "header" -> [text |-> o.har.value, marker |-> o.har.comment]
      [] o.of = "request" ->
            IF IsNone(o.har) THEN [text |-> <<>>, marker |-> None]
            ELSE [text |-> Unwrap(o.har).text, marker |-> Unwrap(o.har).comment]
      [] o.of = "response" ->
            [text |-> IF IsNone(o.har.text) THEN <<>> ELSE Unwrap(o.har.text),
             marker |-> o.har.encoding]

\* C26: for every byte sequence b, its archive form as a header value, as a
\* request body and as a response body is b as text when b is valid UTF-8 and
\* else the base64 of b marked "base64", and decoding that form gives back
\* exactly b.
C26_CodecRoundTrip ==
    output # None =>
        /\ is_utf8(input) => text_in(output) = [text |-> input, marker |-> None]
        /\ ~is_utf8(input) =>
              text_in(output) = [text |-> base64_encode(input),
                                 marker |-> Some(Base64Marker)]
        /\ "back" \in DOMAIN output => output.back = [ok |-> TRUE, val |-> input]

\* The response body <<0xC3, 0xFF, "h">>, which is not UTF-8, went to base64
\* and back.
C26_Witness ==
    /\ output # None
    /\ output.of = "response"
    /\ input = <<195, 255, 104>>
    /\ output.har.encoding = Some(Base64Marker)
    /\ "back" \in DOMAIN output
    /\ output.back.val = <<195, 255, 104>>


\* ---------------------------------------------- claims: recorded headers

\* Whether the archived header list har decodes to the header list m.
decodes_to(har, m) ==
    /\ Len(har) = Len(m)
    /\ \A i \in DOMAIN m :
          /\ header_hyper(har[i]).ok
          /\ header_hyper(har[i]).val = [name |-> m[i].name, value |-> m[i].value]
          /\ har[i].comment = (IF is_utf8(m[i].value) THEN None ELSE Some(Base64Marker))

\* C27: every header passed to record_request and record_response is stored
\* as an entry that decodes to the bytes of its value, base64 with the
\* comment "base64" when they are not UTF-8 and text without comment
\* otherwise; no recording fails because of the bytes of a header value.
C27_HeaderBytesRecorded ==
    \A r \in Requests :
        /\ tx[r].pc # "panicked"
        /\ tx[r].pc = "writing" =>
              LET e == Unwrap(hars[tx[r].slot]).s.entries[1]
              IN  /\ decodes_to(e.request.headers, Unwrap(tx[r].head).headers)
                  /\ decodes_to(e.response.headers, Unwrap(tx[r].resp).head.headers)


\* ----------------------------------------------------- claims: loading

\* Whether an accepted file of the directory cannot be opened, parsed,
\* passed as HAR 1.2, or converted.
has_bad_file(dir) ==
    \E i \in DOMAIN dir.files :
        /\ dir.files[i].accepted
        /\ \/ ~dir.files[i].open
           \/ ~dir.files[i].json
           \/ dir.files[i].doc.version # <<49, 46, 50>>
           \/ \E k \in DOMAIN dir.files[i].doc.entries :
                 ~get_facts(dir.files[i].doc.entries[k].request).ok

\* C28: when an accepted .json file of a project directory cannot be opened,
\* parsed, passed as HAR 1.2 or converted, load_all returns the error and no
\* transactions, and no playback server of the configuration is started.
C28_LoadAllOrNothing ==
    /\ \A i \in DOMAIN input :
          has_bad_file(input[i].dir) =>
              /\ ~load_all_in(input[i].dir).ok
              /\ load_all_in(input[i].dir).err
                    \in {"Io", "Json", "InvalidVersion", "InvalidMatcher"}
              /\ load_all_in(input[i].dir).val = <<>>
    /\ output # None =>
          ((\E i \in DOMAIN input : input[i].playback /\ has_bad_file(input[i].dir))
              => /\ ~output.servers.ok
                 /\ output.servers.val = <<>>
                 /\ output.listening = {}
                 /\ ~ENABLED Serve)

\* The first project loaded four transactions of two files, the second holds a
\* file whose second entry has an invalid method: the configuration failed
\* with InvalidMatcher.
C28_Witness ==
    /\ output # None
    /\ load_all_in(input[1].dir).ok
    /\ Len(load_all_in(input[1].dir).val) = 4
    /\ input[2].playback
    /\ Len(input[2].dir.files) = 1
    /\ Len(input[2].dir.files[1].doc.entries) = 2
    /\ get_facts(input[2].dir.files[1].doc.entries[1].request).ok
    /\ ~load_path(input[2].dir.files[1]).ok
    /\ output.servers = [ok |-> FALSE, err |-> "InvalidMatcher", val |-> <<>>]


\* ------------------------------------------------- claims: loaded facts

\* The method an entry's method stands for, <<>> when it is no method.
method_wanted(m) ==
    CASE m = GET \/ m = get_lower -> GET
      [] m = POST -> POST
      [] OTHER -> <<>>

\* The path and query of an entry's URL; <<-1>> when it is no URL.
path_wanted(u) ==
    CASE u = FactUrls[1] -> PathA
      [] u = FactUrls[2] -> PathB \o <<63>> \o QueryQ
      [] u = FactUrls[3] -> <<>>
      [] u = FactUrls[4] -> <<47>>
      [] OTHER -> <<-1>>

\* The bytes a postData stands for; <<-1>> when its base64 is malformed.
data_wanted(d) ==
    CASE d = FactPostData[3] -> BodyBin
      [] d = FactPostData[4] -> <<-1>>
      [] OTHER -> Unwrap(d).text

\* C29: the facts of an archive entry are Method(upper-cased method) and
\* PathAndQuery(path and query of the URL, "" when the URL has none), then
\* Body{content_type = postData.mimeType, data = the decoded bytes} exactly
\* when postData is present, and no Headers fact; a method or URL that does
\* not parse fails the load with InvalidMatcher.
C29_LoaderFacts ==
    output # None =>
        IF method_wanted(input.method) = <<>> \/ path_wanted(input.url) = <<-1>>
        THEN ~output.facts.ok /\ output.facts.err = "InvalidMatcher"
        ELSE /\ output.facts.ok
                  = (IsNone(input.post_data) \/ data_wanted(input.post_data) # <<-1>>)
             /\ output.facts.ok =>
                /\ output.facts.val[1] = Method(method_wanted(input.method))
                /\ output.facts.val[2] = PathAndQuery(path_wanted(input.url))
                /\ IF IsSome(input.post_data)
                   THEN /\ Len(output.facts.val) = 3
                        /\ output.facts.val[3]
                              = Body(Unwrap(input.post_data).mime_type,
                                     data_wanted(input.post_data))
                   ELSE Len(output.facts.val) = 2
                /\ \A k \in DOMAIN output.facts.val :
                      output.facts.val[k].variant # "Headers"

\* "get" of "/b?q=1" with a base64 postData gave Method(GET),
\* PathAndQuery("/b?q=1") and a Body of the decoded bytes.
C29_Witness ==
    /\ output # None
    /\ input.method = get_lower
    /\ input.url = FactUrls[2]
    /\ input.post_data = FactPostData[3]
    /\ output.facts.ok
    /\ output.facts.val = <<Method(GET), PathAndQuery(PathB \o <<63>> \o QueryQ),
                            Body(<<>>, BodyBin)>>


\* ------------------------------------------- claims: the response built

\* The version a stored version string stands for.
version_wanted(v) ==
    CASE v = <<72, 84, 84, 80, 47, 49, 46, 49>> -> "HTTP_11"
      [] v = <<104, 116, 116, 112, 47, 50>> -> "HTTP_2"
      [] OTHER -> "none"

\* The bytes a stored header or content stands for.
value_wanted(h) == IF h.comment = Some(Base64Marker) THEN BodyBin ELSE h.value
body_wanted(c) ==
    IF IsNone(c.text) THEN <<>>
    ELSE IF c.encoding = Some(Base64Marker) THEN BodyBin
    ELSE Unwrap(c.text)

\* C30: the response built for a matched transaction has the stored status,
\* the stored HTTP version, one header for every stored header, in the stored
\* order and with repeated names kept, base64 values decoded, and the body
\* decoded from content; content.mimeType adds nothing to it.
C30_ResponseAsStored ==
    (output # None /\ output.built.ok) =>
        /\ output.built.val.status = input.response.status
        /\ output.built.val.version = version_wanted(input.response.http_version)
        /\ Len(output.built.val.headers) = Len(input.response.headers)
        /\ \A i \in DOMAIN input.response.headers :
              /\ output.built.val.headers[i].name
                    = to_lowercase(input.response.headers[i].name)
              /\ output.built.val.headers[i].value
                    = value_wanted(input.response.headers[i])
        /\ output.built.val.body = body_wanted(input.response.content)
        /\ DOMAIN output.built.val = {"status", "version", "headers", "body"}


\* ------------------------------------------------- claims: query parsing

\* How many bytes of s are c.
count_of(s, c) == Cardinality({i \in DOMAIN s : s[i] = c})

\* The query whose pieces are the entries from i on, entry k written with
\* "=" when eq[k].
RECURSIVE joined(_, _, _)
joined(list, eq, i) ==
    IF i > Len(list) THEN <<>>
    ELSE list[i].name
         \o (IF eq[i] THEN <<61>> \o list[i].value ELSE <<>>)
         \o (IF i < Len(list) THEN <<38>> ELSE <<>>)
         \o joined(list, eq, i + 1)

\* C31: an absent query and an empty one (a URI ending in "?") give an empty
\* queryString list; a query that is not empty gives one entry for every
\* "&"-separated piece, the piece cut at its first "=", with an empty value
\* when the piece has no "=".
C31_QueryStringEntries ==
    output # None =>
        IF input = None \/ input = Some(<<>>) THEN output.list = <<>>
        ELSE /\ Len(output.list) = count_of(Unwrap(input), 38) + 1
             /\ \A i \in DOMAIN output.list :
                   /\ count_of(output.list[i].name, 61) = 0
                   /\ count_of(output.list[i].name, 38) = 0
                   /\ count_of(output.list[i].value, 38) = 0
             /\ \E eq \in [DOMAIN output.list -> BOOLEAN] :
                   /\ \A i \in DOMAIN output.list :
                         ~eq[i] => output.list[i].value = <<>>
                   /\ joined(output.list, eq, 1) = Unwrap(input)


\* ------------------------------------------ claims: written, then answered

\* C32: a response whose status is not ignored is handed to the client by the
\* step that finishes writing the transaction's document into its file; when
\* commit or write_to_dir fails the future ends in the error and the client
\* is handed no response.
C32_WrittenBeforeAnswered ==
    [][\A r \in Requests :
        /\ (/\ tx[r].pc # "responded"
            /\ tx'[r].pc = "responded"
            /\ Unwrap(tx[r].upstream)[1].status \notin ignored_status_codes) =>
              /\ IsSome(tx[r].file)
              /\ Unwrap(tx[r].file) \in DOMAIN fs'
              /\ fs'[Unwrap(tx[r].file)] # Truncated
              /\ document_in(fs'[Unwrap(tx[r].file)])
                    = har_document(Unwrap(hars[tx[r].slot]).s)
              /\ Len(document_in(fs'[Unwrap(tx[r].file)]).entries) = 1
              /\ document_in(fs'[Unwrap(tx[r].file)]).entries[1].response.status
                    = Unwrap(tx'[r].reply).status
        /\ (tx[r].pc \in {"resp_body", "writing"} /\ tx'[r].pc = "failed") =>
              IsNone(tx'[r].reply)]_vars

\* One request was answered after its document was written; the write of the
\* other failed after File::create and it got no response.
C32_Witness ==
    \E r, q \in Requests :
        /\ tx[r].pc = "responded"
        /\ IsSome(tx[r].file)
        /\ fs[Unwrap(tx[r].file)] # Truncated
        /\ tx[q].pc = "failed"
        /\ IsSome(tx[q].file)
        /\ IsNone(tx[q].reply)


\* ------------------------------------------------- claims: failed commit

\* The session after the pieces it misses for a commit have been supplied:
\* request rq, response rs, and the start timestamp.
supplied(s, rq, rs) ==
    LET s1 == IF IsNone(s.request) THEN record_request(s, rq[1], rq[2]) ELSE s
        s2 == IF IsNone(s1.response) THEN record_response(s1, rs[1], rs[2]) ELSE s1
    IN  IF IsNone(s2.start_date) THEN start_session(s2, 0) ELSE s2

\* C33: a commit that fails with MissingBoth, MissingRequest, MissingResponse
\* or MissingStart leaves the log, the pending request and response, the
\* start timestamp and the pending fingerprint as they were, and after the
\* missing pieces are supplied commit succeeds with what was pending.
C33_FailedCommitChangesNothing ==
    [][(last'.op = "commit" /\ ~last'.ok) =>
        /\ last'.err \in {"MissingBoth", "MissingRequest", "MissingResponse",
                          "MissingStart"}
        /\ hs'.entries = hs.entries
        /\ hs'.request = hs.request
        /\ hs'.response = hs.response
        /\ hs'.start_date = hs.start_date
        /\ hs'.request_hash = hs.request_hash
        /\ fs' = fs
        /\ \A rq \in SessionRequests, rs \in SessionResponses :
              LET c == commit(supplied(hs', rq, rs), 0)
              IN  /\ c.ok
                  /\ Len(c.s.entries) = Len(hs.entries) + 1
                  /\ IsSome(hs.request) =>
                        c.s.entries[Len(c.s.entries)].request = Unwrap(hs.request)
                  /\ IsSome(hs.response) =>
                        c.s.entries[Len(c.s.entries)].response = Unwrap(hs.response)]_vars

\* A commit failed with MissingStart on a session that holds a committed
\* entry and a pending request and response.
C33_Witness ==
    /\ last.op = "commit"
    /\ ~last.ok
    /\ last.err = "MissingStart"
    /\ Len(hs.entries) = 1
    /\ IsSome(hs.request)
    /\ IsSome(hs.response)
    /\ IsSome(hs.request_hash)
    /\ IsNone(hs.start_date)


\* ------------------------------------------ claims: the pending fingerprint

\* The bytes of the body an archived request holds.
body_of(request) ==
    IF IsNone(request.post_data) THEN <<>>
    ELSE request_body_and_encoding(Unwrap(request.post_data)).data

\* C34: after any sequence of calls a session has a pending request exactly
\* when it has a pending fingerprint, which is the digest of the method, URL,
\* HTTP version and body of the pending request, the one recorded last; so
\* no commit fails on taking the fingerprint.
C34_FingerprintWithRequest ==
    /\ IsSome(hs.request) <=> IsSome(hs.request_hash)
    /\ IsSome(hs.request) =>
          /\ hs.request_hash = Some(fingerprint_of(Unwrap(hs.request)))
          /\ hs.request_hash
                = Some(sha256_hex(Unwrap(hs.request).method,
                                  Unwrap(hs.request).url,
                                  Unwrap(hs.request).http_version,
                                  body_of(Unwrap(hs.request))))
    /\ last.err # "panic"
    /\ \A t \in SessionClock : commit(hs, t).err # "panic"

\* After a commit of one request another request was recorded and is pending
\* with its own fingerprint.
C34_Witness ==
    /\ Len(hs.entries) = 1
    /\ last.op = "record_request"
    /\ IsSome(hs.request)
    /\ Unwrap(hs.request) # hs.entries[1].request
    /\ hs.request_hash = Some(fingerprint_of(Unwrap(hs.request)))
    /\ hs.request_hash # Some(fingerprint_of(hs.entries[1].request))


\* ------------------------------------------------ claims: the log grows

\* C35: the log of a session starts empty and changes only by a successful
\* commit, which puts the entry of the pending request and response behind
\* the entries there are; start_session, record_request, record_response, a
\* failed commit and write_to_dir leave every committed entry as it is.
C35_LogOnlyGrows ==
    /\ hs.entries = <<>>
    /\ [][IF last'.op = "commit" /\ last'.ok
          THEN /\ Len(hs'.entries) = Len(hs.entries) + 1
               /\ \A i \in DOMAIN hs.entries : hs'.entries[i] = hs.entries[i]
               /\ hs'.entries[Len(hs'.entries)].request = Unwrap(hs.request)
               /\ hs'.entries[Len(hs'.entries)].response = Unwrap(hs.response)
               /\ hs'.entries[Len(hs'.entries)].started_date_time
                     = Unwrap(hs.start_date)
          ELSE hs'.entries = hs.entries]_vars

\* With two entries committed, a session was started again and took a new
\* request and response.
C35_Witness ==
    /\ Len(hs.entries) = 2
    /\ last.op = "record_response"
    /\ IsSome(hs.request)
    /\ IsSome(hs.response)
    /\ IsSome(hs.start_date)


\* C36: in the record pipeline commit never fails with an
\* IncompleteEntryError and write_to_dir never fails with EmptySession.  A
\* request whose response body is awaited has a session holding its request
\* and start timestamp, so that after record_response the commit succeeds
\* and write_to_dir on the committed session finds a file name; a request
\* whose file is being written has a session with a committed entry.
C36_CommitAndWriteNeverReject ==
    \A r \in Requests :
        /\ tx[r].pc \in {"upstream", "resp_body"} =>
              /\ IsSome(Unwrap(hars[tx[r].slot]).s.request)
              /\ IsSome(Unwrap(hars[tx[r].slot]).s.start_date)
        /\ (tx[r].pc = "resp_body" /\ ~record_panics(Unwrap(tx[r].resp).head)) =>
              \A t \in RecordClock :
                 commit(record_response(Unwrap(hars[tx[r].slot]).s,
                                        Unwrap(tx[r].resp).head,
                                        Unwrap(tx[r].resp).body), t).ok
                 /\ write_to_dir(commit(record_response(Unwrap(hars[tx[r].slot]).s,
                                                        Unwrap(tx[r].resp).head,
                                                        Unwrap(tx[r].resp).body), t).s,
                                 tx[r].method \o <<46>> \o tx[r].path_without_query).ok
        /\ tx[r].pc = "writing" =>
              /\ HasCommitted(Unwrap(hars[tx[r].slot]))
              /\ file_hash(Unwrap(hars[tx[r].slot]).s) # None

\* The response body of a request with a status that is archived has
\* arrived: commit and write_to_dir are about to run on its session.
C36_Witness ==
    \E r \in Requests :
        /\ tx[r].pc = "resp_body"
        /\ ~record_panics(Unwrap(tx[r].resp).head)
        /\ Unwrap(tx[r].resp).head.status \notin ignored_status_codes
        /\ ENABLED RespBodyDone(r)


\* C37: a successful write_to_dir on a session with committed entries names
\* the file by the fingerprint of the first committed entry, whatever was
\* committed after it, and the file then holds exactly the committed entries
\* in commit order: no pending request or response is part of it, and the
\* session is left as it was.
C37_FileOfFirstCommit ==
    [][(last'.op = "write_to_dir" /\ last'.ok) =>
        /\ hs.entries # <<>>
        /\ hs' = hs
        /\ Unwrap(last'.ret).fp8 =
              [fp8_of |-> Some(fingerprint_of(hs.entries[1].request))]
        /\ Unwrap(last'.ret) \in DOMAIN fs'
        /\ fs'[Unwrap(last'.ret)] = [version |-> <<49, 46, 50>>, entries |-> hs.entries]]_vars

\* A session committed twice, with two different requests, was written
\* while a request with the fingerprint of the second entry and a response
\* were pending.
C37_Witness ==
    /\ last.op = "write_to_dir"
    /\ last.ok
    /\ Len(hs.entries) = 2
    /\ fingerprint_of(hs.entries[1].request) # fingerprint_of(hs.entries[2].request)
    /\ IsSome(hs.request)
    /\ IsSome(hs.response)
    /\ fingerprint_of(Unwrap(hs.request)) # fingerprint_of(hs.entries[1].request)
    /\ Unwrap(last.ret) \in DOMAIN fs
    /\ Len(fs[Unwrap(last.ret)].entries) = 2


\* ------------------------------------------------------- claims: ports

\* C38: every port the allocator yields for a project without a port is
\* none of the ports observed before it, is at least 8080 and greater than
\* every port yielded before it, and at the top of the u16 range the
\* allocator returns None, on which the configuration is given up, without
\* the current port having wrapped around.
C38_YieldedPortsUnusedAndIncreasing ==
    [][/\ (Len(output'.ports) = Len(output.ports) + 1
           /\ output'.ports[Len(output'.ports)].yielded) =>
              /\ ~contains(output.next_port.used, output'.ports[Len(output'.ports)].port)
              /\ output'.ports[Len(output'.ports)].port >= FirstPort
              /\ IsSome(output.last_yielded) =>
                    output'.ports[Len(output'.ports)].port > Unwrap(output.last_yielded)
              /\ output'.next_port.current > output'.ports[Len(output'.ports)].port
       /\ output'.next_port.current >= output.next_port.current
       /\ (output.stage = "mapping" /\ output'.stage = "panicked") =>
              /\ output'.out_of_ports
              /\ output'.next_port.current = U16_MAX
              /\ output'.ports = output.ports]_vars

\* The allocator skipped a configured port for one project and ran out of
\* ports at the top of the range for a later one.
C38_Witness ==
    /\ output # None
    /\ "stage" \in DOMAIN output
    /\ output.stage = "panicked"
    /\ output.out_of_ports
    /\ output.next_port.current = U16_MAX
    /\ \E i \in DOMAIN output.ports : output.ports[i].yielded
    /\ \E i \in DOMAIN output.ports : ~output.ports[i].yielded

=============================================================================
